---- MODULE Spec2Model ----
(***************************************************************************)
(* Verification model of the InfoBridgeAI appointment booking engine.      *)
(*                                                                         *)
(* Three independent parts of the program are modelled, each with its own  *)
(* specification over the shared variable list:                            *)
(*   SpecBreaker   - CircuitBreaker.call of infobridge.py (no lock) and of *)
(*                   app101.py (threading.Lock), called by several threads *)
(*   SpecCalendar  - app101.py GoogleCalendarManager: check_availability   *)
(*                   and create_appointment over the non-reentrant _lock   *)
(*   SpecBooking   - infobridge.py _finish_booking_lightning over the      *)
(*                   cached check_availability and create_appointment      *)
(* The variables of the parts a specification does not use stay at their   *)
(* initial values.                                                         *)
(***************************************************************************)
EXTENDS Integers, Sequences, FiniteSets, TLC

VARIABLES
    \* ---- CircuitBreaker (both implementations)
    impl,               \* which class is under analysis: "infobridge" | "app101"
    cb_state,           \* infobridge self.state: "closed" | "open" | "half_open"
    is_open,            \* app101 self.is_open
    failure_count,      \* self.failure_count
    success_count,      \* infobridge self.success_count
    last_failure_time,  \* self.last_failure_time; None is modelled as NoTime
    now,                \* time.time(), in seconds
    cpc,                \* per calling thread: position inside call()
    ctmp,               \* per calling thread: value of failure_count it loaded
                        \* (0 outside the increment)
    outcome,            \* per calling thread: how its last call() ended
    nfail,              \* times the protected function raised
    nsucc,              \* times the protected function returned
    ncalls,             \* calls of call() started
    streak,             \* failures recorded in a row since the last recorded
                        \* success or closing of the breaker
    trial,              \* per calling thread: its call in progress passed an
                        \* open breaker whose recovery_timeout had elapsed
    \* ---- app101.py GoogleCalendarManager
    service,            \* self.service is set (the calendar is configured)
    events,             \* the calendar: records [id, start, end, by]
    lock,               \* GoogleCalendarManager._lock: 0 free, else the holder
    depth,              \* acquisitions of _lock held by its holder
    apc,                \* per worker thread: position in the manager's code
    aop,                \* per worker thread: call it last made, with the
                        \* frame of create_appointment it is in
    areq,               \* per worker thread: grid slot it asked for
    aexcl,              \* per worker thread: exclude_event_id of its check
    aret,               \* per worker thread: what its last call returned
    nops,               \* calls of the manager started
    \* ---- infobridge.py booking path
    gcal,               \* self.google_calendar: "none" (calendar disabled),
                        \* "no_service" (manager whose service is None), "ready"
    ib_events,          \* the calendar: records [id, start, end, by]
    availability_cache, \* grid index -> NoEntry or [available, timestamp]
    appointments,       \* self.appointments: sequence of [sid, slot, event_id]
    bpc,                \* per call session: position of its turn's handler
    btime,              \* per call session: customer_data['time'] as a grid
                        \* index, 0 when unset
    bsrc,               \* per call session: what answered the availability
                        \* check of its turn
    bsnap,              \* per call session, until its turn ends: the calendar
                        \* as it was when its availability check was answered
    bresp,              \* per call session: response of its last turn
    rpc,                \* cache refresh thread: "scan" | "sleep"
    ridx,               \* cache refresh thread: grid index it scans next
    rwake,              \* cache refresh thread: end of its time.sleep(300)
    nturns,             \* speech turns started
    api_failed,         \* a call of the calendar API has raised
    \* ---- call session store (both implementations)
    call_sessions,      \* self.call_sessions: call id -> NoSession or
                        \* [gen, state, history, created_at]
    session_lock,       \* app101 self.session_lock: 0 free, else the holder
    hpc,                \* per request thread: position of its webhook handler
    hkind,              \* per request thread: webhook of its request
    hsid,               \* per request thread: CallSid of its request
    hstatus,            \* per request thread: CallStatus of its request
    hgen,               \* per request thread: gen of the session it looked up
    hresp,              \* per request thread: response of its last request
    reap_at,            \* cleanup_sessions: end of its time.sleep(60)
    nsess,              \* sessions constructed
    nevents,            \* webhook requests received
    last_turn,          \* per call id: time its session was made or last
                        \* had a turn processed
    ended,              \* call ids whose live session a status callback removed
    \* ---- one caller's speech turns: extraction and booking
    customer_data,      \* session.customer_data: the booking fields, 0 unset
    session_state,      \* session.state
    xpc,                \* position of the turn's handler
    utterance,          \* what the caller said, by what each extractor finds
    answers,            \* what the collaborators answer during the turn
    data_before,        \* customer_data as the latest extraction found it
    raised,             \* the latest extraction ended in an exception
    turn_response,      \* response of the last finished turn
    turn_booked,        \* an appointment was stored for the session
    calendar_manager,   \* app101 self.calendar_manager, infobridge
                        \* self.google_calendar: "none" | "no_service" | "ready"
    gemini_enabled,     \* app101 gemini_manager.enabled, infobridge use_ai
    from_number,        \* the request carried the caller's number
    enable_parallel,    \* infobridge self.enable_parallel
    nutt,               \* speech turns of the session started
    \* ---- the AI text call of a speech turn
    gpc,                \* per request thread: the AI call its turn is in
    ai_hung,            \* per request thread: the AI call it waits for
                        \* never returns
    gresp,              \* per request thread: response of its last turn
    ai_streak,          \* turns in a row whose AI text call raised or timed out
    nai,                \* turns started
    \* ---- app101.py find_next_available_slots
    fpc,                \* position in the function
    fidx,               \* place of preferred_time in time_slots, 0 if none
    fcount,             \* count
    time_slots,         \* the local list time_slots
    fpos,               \* place in time_slots of the loop's next slot
    available_slots,    \* the local list available_slots
    \* ---- app101.py has_overlap, by itself
    ov_pc,              \* position: "idle" or "tested"
    ov_new,             \* <<appointment_date, appointment_end>>
    ov_old,             \* <<event_start, event_end>>
    has_overlap,        \* has_overlap of the appointment against the event
    has_overlap_swapped,\* has_overlap of the event against the appointment
    \* ---- the booking step of a speech turn
    in_store,           \* call_sessions holds the session of the call
    stored,             \* the appointments stored for the call, in order
    evicted_inflight,   \* the session was removed from call_sessions while
                        \* the turn now in flight was being handled
    redelivered,        \* the turn last delivered repeats the one before
    data_store_lock,    \* DataStore._lock of app101.py is held
    \* ---- infobridge.py handle_user_input_lightning, the tasks of a turn
    enable_predictive,  \* ENABLE_PREDICTIVE
    main_pc,            \* position of the request thread
    extract_pc,         \* the extraction: none, queued, running, done
    extract_at,         \* place in FieldOrder of the field it looks at next
    ai_pc,              \* the AI task: none, queued, done
    predict_pc,         \* the prediction task: none, queued, done
    fields,             \* the fields of session.customer_data that are set
    said,               \* the fields the utterance of the turn gives
    read_early,         \* the readers that read the fields in this turn
                        \* before its extraction was done
    npar,               \* turns started
    \* ---- extract_date of both files
    d_pc,               \* position: "idle" or "extracted"
    today_weekday,      \* datetime.now().weekday(), Monday 0
    date_text,          \* the date words of the utterance
    app_date,           \* what app101's extract_date returned, in days
                        \* from today
    ib_date,            \* what infobridge's extract_date returned
    \* ---- infobridge.py, the time block of extract_booking_info
    n_pc,               \* position: "idle" or "stored"
    parsed_time,        \* what extract_time returned
    stored_time,        \* session.customer_data['time']
    \* ---- the service block of extract_booking_info
    sv_pc,              \* position: "idle" or "stored"
    services,           \* business_config.services: the priority of each
                        \* service, in list order
    matching_services,  \* the services the utterance matches
    stored_service,     \* session.customer_data['service'], 0 if unset
    \* ---- infobridge.py, the year given to a date string
    y_pc,               \* position: "idle", "checked" or "created"
    appt,               \* the instant the date and time strings name
    clock,              \* datetime.now()
    clock_at_check,     \* datetime.now() when the check resolved them
    check_year,         \* the year _check_availability_internal chose
    create_year         \* the year create_appointment chose

breakerVars == <<impl, cb_state, is_open, failure_count, success_count,
                 last_failure_time, now, cpc, ctmp, outcome, nfail, nsucc,
                 ncalls, streak, trial>>

calendarVars == <<service, events, lock, depth, apc, aop, areq, aexcl, aret,
                  nops>>

bookingVars == <<gcal, ib_events, availability_cache, appointments, bpc,
                 btime, bsrc, bsnap, bresp, rpc, ridx, rwake, nturns,
                 api_failed>>

sessionVars == <<call_sessions, session_lock, hpc, hkind, hsid, hstatus, hgen,
                 hresp, reap_at, nsess, nevents, last_turn, ended>>

breakerRest == <<cb_state, is_open, failure_count, success_count,
                 last_failure_time, cpc, ctmp, outcome, nfail, nsucc, ncalls,
                 streak, trial>>

turnVars == <<customer_data, session_state, xpc, utterance, answers,
              data_before, raised, turn_response, turn_booked,
              calendar_manager, gemini_enabled, from_number, enable_parallel,
              nutt>>

aiVars == <<gpc, ai_hung, gresp, ai_streak, nai>>

slotVars == <<fpc, fidx, fcount, time_slots, fpos, available_slots>>

overlapVars == <<ov_pc, ov_new, ov_old, has_overlap, has_overlap_swapped>>

finishVars == <<in_store, stored, evicted_inflight, redelivered,
                data_store_lock>>

parallelVars == <<enable_predictive, main_pc, extract_pc, extract_at, ai_pc,
                  predict_pc, fields, said, read_early, npar>>

datesVars == <<d_pc, today_weekday, date_text, app_date, ib_date>>

nearestVars == <<n_pc, parsed_time, stored_time>>

servicesVars == <<sv_pc, services, matching_services, stored_service>>

yearVars == <<y_pc, appt, clock, clock_at_check, check_year, create_year>>

vars == <<breakerVars, calendarVars, bookingVars, sessionVars, turnVars,
          aiVars, slotVars, overlapVars, finishVars, parallelVars, datesVars,
          nearestVars, servicesVars, yearVars>>

\* What the steps of the circuit breaker leave alone.
notBreaker == <<calendarVars, bookingVars, sessionVars, turnVars, aiVars,
                slotVars, overlapVars, finishVars, parallelVars, datesVars,
                nearestVars, servicesVars, yearVars>>

\* What the steps of app101's calendar manager leave alone.
notCalendar == <<breakerVars, bookingVars, sessionVars, turnVars, aiVars,
                 slotVars, overlapVars, finishVars, parallelVars, datesVars,
                 nearestVars, servicesVars, yearVars>>

\* What the steps of infobridge's booking path leave alone, the clock apart.
notBooking == <<impl, cb_state, is_open, failure_count, success_count,
                last_failure_time, cpc, ctmp, outcome, nfail, nsucc, ncalls,
                streak, trial, calendarVars, sessionVars, turnVars, aiVars,
                slotVars, overlapVars, finishVars, parallelVars, datesVars,
                nearestVars, servicesVars, yearVars>>

\* What the steps of the call session store leave alone, the clock apart.
notSessions == <<impl, breakerRest, calendarVars, bookingVars, turnVars,
                 aiVars, slotVars, overlapVars, finishVars, parallelVars,
                 datesVars, nearestVars, servicesVars, yearVars>>

\* What the steps of a speech turn leave alone.
notTurn == <<breakerVars, calendarVars, bookingVars, sessionVars, aiVars,
             slotVars, overlapVars, finishVars, parallelVars, datesVars,
             nearestVars, servicesVars, yearVars>>

\* What the AI call of a turn leaves alone, the breaker apart.
notAI == <<calendarVars, bookingVars, sessionVars, turnVars, slotVars,
           overlapVars, finishVars, parallelVars, datesVars, nearestVars,
           servicesVars, yearVars>>

\* What the steps of find_next_available_slots leave alone.
notSlots == <<breakerVars, calendarVars, bookingVars, sessionVars, turnVars,
              aiVars, overlapVars, finishVars, parallelVars, datesVars,
              nearestVars, servicesVars, yearVars>>

\* What the steps on has_overlap by itself leave alone.
notOverlap == <<breakerVars, calendarVars, bookingVars, sessionVars, turnVars,
                aiVars, slotVars, finishVars, parallelVars, datesVars,
                nearestVars, servicesVars, yearVars>>

\* What the booking step of a turn leaves alone, the turn apart.
notFinish == <<breakerVars, calendarVars, bookingVars, sessionVars, aiVars,
               slotVars, overlapVars, parallelVars, datesVars, nearestVars,
               servicesVars, yearVars>>

\* What the tasks of a turn leave alone.
notParallel == <<breakerVars, calendarVars, bookingVars, sessionVars,
                 turnVars, aiVars, slotVars, overlapVars, finishVars,
                 datesVars, nearestVars, servicesVars, yearVars>>

\* What extract_date leaves alone.
notDates == <<breakerVars, calendarVars, bookingVars, sessionVars, turnVars,
              aiVars, slotVars, overlapVars, finishVars, parallelVars,
              nearestVars, servicesVars, yearVars>>

\* What the time block leaves alone.
notNearest == <<breakerVars, calendarVars, bookingVars, sessionVars, turnVars,
                aiVars, slotVars, overlapVars, finishVars, parallelVars,
                datesVars, servicesVars, yearVars>>

\* What the service block leaves alone.
notServices == <<breakerVars, calendarVars, bookingVars, sessionVars,
                 turnVars, aiVars, slotVars, overlapVars, finishVars,
                 parallelVars, datesVars, nearestVars, yearVars>>

\* What the resolution of a date string leaves alone.
notYears == <<breakerVars, calendarVars, bookingVars, sessionVars, turnVars,
              aiVars, slotVars, overlapVars, finishVars, parallelVars,
              datesVars, nearestVars, servicesVars>>

NCallers == 2
NWorkers == 2
NHandlers == 2
NCallIds == 2

NSessions == 2
NBookSlots == 2

Callers == 1..NCallers
Workers == 1..NWorkers
Sessions == 1..NSessions
Handlers == 1..NHandlers
CallIds == 1..NCallIds
NoSession == [gen |-> 0, state |-> "none", history |-> 0, created_at |-> 0]

\* cleanup_sessions of app101.py: time.sleep(60); if age > 1800
cleanup_sleep == 60
session_max_age == 1800
NoTime == -1
NoEntry == [available |-> TRUE, timestamp |-> NoTime]

\* The grid indexes the booking path's requests are drawn from: 10:00 AM on.
BookSlots == 5..(4 + NBookSlots)

\* The circuit breaker as constructed, with no call made.
BreakerIdle ==
    /\ cb_state = "closed"
    /\ is_open = FALSE
    /\ failure_count = 0
    /\ success_count = 0
    /\ last_failure_time = NoTime
    /\ now = 0
    /\ cpc = [t \in Callers |-> "idle"]
    /\ ctmp = [t \in Callers |-> 0]
    /\ outcome = [t \in Callers |-> "none"]
    /\ nfail = 0
    /\ nsucc = 0
    /\ ncalls = 0
    /\ streak = 0
    /\ trial = [t \in Callers |-> FALSE]

\* The calendar manager as constructed, with no call made.
CalendarIdle ==
    /\ lock = 0
    /\ depth = 0
    /\ apc = [t \in Workers |-> "idle"]
    /\ aop = [t \in Workers |-> "none"]
    /\ areq = [t \in Workers |-> 0]
    /\ aexcl = [t \in Workers |-> 0]
    /\ aret = [t \in Workers |-> "none"]
    /\ nops = 0

\* The booking path of infobridge.py as constructed, with no turn taken.
BookingIdle ==
    /\ ib_events = {}
    /\ availability_cache = [k \in BookSlots |-> NoEntry]
    /\ appointments = <<>>
    /\ bpc = [c \in Sessions |-> "idle"]
    /\ btime = [c \in Sessions |-> 0]
    /\ bsrc = [c \in Sessions |-> "none"]
    /\ bsnap = [c \in Sessions |-> {}]
    /\ bresp = [c \in Sessions |-> "none"]
    /\ rpc = "scan"
    /\ ridx = 5
    /\ rwake = 0
    /\ nturns = 0
    /\ api_failed = FALSE

\* The call session store as constructed, with no request received.
SessionIdle ==
    /\ call_sessions = [id \in CallIds |-> NoSession]
    /\ session_lock = 0
    /\ hpc = [h \in Handlers |-> "idle"]
    /\ hkind = [h \in Handlers |-> "none"]
    /\ hsid = [h \in Handlers |-> 0]
    /\ hstatus = [h \in Handlers |-> "none"]
    /\ hgen = [h \in Handlers |-> 0]
    /\ hresp = [h \in Handlers |-> "none"]
    /\ reap_at = cleanup_sleep
    /\ nsess = 0
    /\ nevents = 0
    /\ last_turn = [id \in CallIds |-> 0]
    /\ ended = {}

\* session.customer_data of a new session, and no utterance heard yet.
NoData == [name |-> 0, service |-> 0, date |-> 0, time |-> 0, phone |-> 0,
           preferred_time |-> 0]
NoUtterance == [k |-> 0, nm |-> "none", sv |-> FALSE, dt |-> FALSE, tm |-> "none",
                ph |-> FALSE]
NoAnswers == [free |-> TRUE, ai |-> FALSE, late |-> FALSE]

\* The speech turn handler as constructed, with no call taken.
TurnIdle ==
    /\ customer_data = NoData
    /\ session_state = "greeting"
    /\ xpc = "idle"
    /\ utterance = NoUtterance
    /\ answers = NoAnswers
    /\ data_before = NoData
    /\ raised = FALSE
    /\ turn_response = "none"
    /\ turn_booked = FALSE
    /\ calendar_manager = "none"
    /\ gemini_enabled = FALSE
    /\ from_number = FALSE
    /\ enable_parallel = FALSE
    /\ nutt = 0

\* No turn has asked the AI for anything.
AIIdle ==
    /\ gpc = [t \in Callers |-> "idle"]
    /\ ai_hung = [t \in Callers |-> FALSE]
    /\ gresp = [t \in Callers |-> "none"]
    /\ ai_streak = 0
    /\ nai = 0

\* find_next_available_slots is not running.
SlotsIdle ==
    /\ fpc = "idle"
    /\ fidx = 0
    /\ fcount = 0
    /\ time_slots = <<>>
    /\ fpos = 1
    /\ available_slots = <<>>

\* has_overlap is not being looked at by itself.
OverlapIdle ==
    /\ ov_pc = "idle"
    /\ ov_new = <<0, 1>>
    /\ ov_old = <<0, 1>>
    /\ has_overlap = FALSE
    /\ has_overlap_swapped = FALSE

\* No call has reached the booking step.
FinishIdle ==
    /\ in_store = FALSE
    /\ stored = <<>>
    /\ evicted_inflight = FALSE
    /\ redelivered = FALSE
    /\ data_store_lock = FALSE

\* No turn is being handled by tasks.
ParallelIdle ==
    /\ enable_predictive = FALSE
    /\ main_pc = "idle"
    /\ extract_pc = "none"
    /\ extract_at = 1
    /\ ai_pc = "none"
    /\ predict_pc = "none"
    /\ fields = {}
    /\ said = {}
    /\ read_early = {}
    /\ npar = 0

\* No utterance is being read for a date.
DatesIdle ==
    /\ d_pc = "idle"
    /\ today_weekday = 0
    /\ date_text = [rel |-> "none", day |-> 7]
    /\ app_date = -1
    /\ ib_date = -1

\* No time is being stored.
NearestIdle ==
    /\ n_pc = "idle"
    /\ parsed_time = [hour |-> 0, minute |-> 0, period |-> "none"]
    /\ stored_time = [hour |-> 0, minute |-> 0, period |-> "none"]

\* No utterance is being matched against the services.
ServicesIdle ==
    /\ sv_pc = "idle"
    /\ services = <<>>
    /\ matching_services = {}
    /\ stored_service = 0

\* No date string is being resolved.
YearsIdle ==
    /\ y_pc = "idle"
    /\ appt = [day |-> 0, minute |-> 0]
    /\ clock = [day |-> 0, minute |-> 0]
    /\ clock_at_check = [day |-> 0, minute |-> 0]
    /\ check_year = -1
    /\ create_year = -1

(***************************************************************************)
(* CircuitBreaker                                                          *)
(***************************************************************************)
failure_threshold == 5
recovery_timeout == 60
success_threshold == 2

MaxCalls == 7
TickSeconds == 30
MaxClock == 90

Impls == {"infobridge", "app101"}

\* The comparison with >= in place of >.
RecoveryElapsedInclusive == now - last_failure_time >= recovery_timeout

\* time.time() - self.last_failure_time > self.recovery_timeout
RecoveryElapsed == now - last_failure_time > recovery_timeout

\* self.failure_count >= self.failure_threshold
ThresholdReached(n) == n >= failure_threshold

\* self.success_count >= self.success_threshold
SuccessesReached(n) == n >= success_threshold

BreakerInit ==
    /\ impl \in Impls
    /\ BreakerIdle
    /\ service = FALSE
    /\ events = {}
    /\ CalendarIdle
    /\ gcal = "none"
    /\ BookingIdle
    /\ SessionIdle
    /\ TurnIdle
    /\ AIIdle
    /\ SlotsIdle
    /\ OverlapIdle
    /\ FinishIdle
    /\ ParallelIdle
    /\ DatesIdle
    /\ NearestIdle
    /\ ServicesIdle
    /\ YearsIdle

\* The clock advances between any two steps of the program.
Tick ==
    /\ now + TickSeconds <= MaxClock
    /\ now' = now + TickSeconds
    /\ UNCHANGED <<impl, cb_state, is_open, failure_count, success_count,
                   last_failure_time, cpc, ctmp, outcome, nfail, nsucc, ncalls,
                   streak, trial>>
    /\ UNCHANGED notBreaker

\* ---- infobridge.py CircuitBreaker.call: the class has no lock, so every
\* statement group below is a step of its own thread and other threads run
\* between them.

\* if self.state == 'open': if time.time() - self.last_failure_time >
\* self.recovery_timeout: state = 'half_open'; success_count = 0
\* else: raise Exception("Circuit breaker is open")
IBGate(t) ==
    /\ impl = "infobridge"
    /\ cpc[t] = "idle"
    /\ ncalls < MaxCalls
    /\ ncalls' = ncalls + 1
    /\ IF cb_state = "open"
       THEN IF RecoveryElapsed
            THEN /\ cb_state' = "half_open"
                 /\ success_count' = 0
                 /\ cpc' = [cpc EXCEPT ![t] = "invoke"]
                 /\ outcome' = [outcome EXCEPT ![t] = "none"]
                 /\ trial' = [trial EXCEPT ![t] = TRUE]
            ELSE /\ outcome' = [outcome EXCEPT ![t] = "rejected"]
                 /\ trial' = [trial EXCEPT ![t] = FALSE]
                 /\ UNCHANGED <<cb_state, success_count, cpc>>
       ELSE /\ cpc' = [cpc EXCEPT ![t] = "invoke"]
            /\ outcome' = [outcome EXCEPT ![t] = "none"]
            /\ trial' = [trial EXCEPT ![t] = FALSE]
            /\ UNCHANGED <<cb_state, success_count>>
    /\ UNCHANGED <<impl, is_open, failure_count, last_failure_time, now, ctmp,
                   nfail, nsucc, streak>>
    /\ UNCHANGED notBreaker

\* result = func(*args, **kwargs): the protected function returns or raises
Invoke(t) ==
    /\ cpc[t] = "invoke"
    /\ \E ok \in BOOLEAN :
         IF ok
         THEN /\ cpc' = [cpc EXCEPT ![t] = "succ"]
              /\ nsucc' = nsucc + 1
              /\ UNCHANGED nfail
         ELSE /\ cpc' = [cpc EXCEPT ![t] = "fail"]
              /\ nfail' = nfail + 1
              /\ UNCHANGED nsucc
    /\ UNCHANGED <<impl, cb_state, is_open, failure_count, success_count,
                   last_failure_time, now, ctmp, outcome, ncalls, streak, trial>>
    /\ UNCHANGED notBreaker

\* The protected function has returned.  if self.state == 'half_open':
\* self.success_count += 1, first half: load self.success_count;
\* otherwise return result
IBSuccess(t) ==
    /\ impl = "infobridge"
    /\ cpc[t] = "succ"
    /\ IF cb_state = "half_open"
       THEN /\ ctmp' = [ctmp EXCEPT ![t] = success_count]
            /\ cpc' = [cpc EXCEPT ![t] = "succ_store"]
            /\ UNCHANGED <<outcome, trial, streak>>
       ELSE /\ cpc' = [cpc EXCEPT ![t] = "idle"]
            /\ outcome' = [outcome EXCEPT ![t] = "ok"]
            /\ trial' = [trial EXCEPT ![t] = FALSE]
            /\ streak' = 0
            /\ UNCHANGED ctmp
    /\ UNCHANGED <<impl, cb_state, is_open, failure_count, success_count,
                   last_failure_time, now, nfail, nsucc, ncalls>>
    /\ UNCHANGED notBreaker

\* self.success_count += 1, second half: store the sum; then
\* if self.success_count >= self.success_threshold: self.state = 'closed';
\* self.failure_count = 0.  return result
IBSuccessStore(t) ==
    /\ impl = "infobridge"
    /\ cpc[t] = "succ_store"
    /\ success_count' = ctmp[t] + 1
    /\ IF SuccessesReached(ctmp[t] + 1)
       THEN /\ cb_state' = "closed"
            /\ failure_count' = 0
       ELSE UNCHANGED <<cb_state, failure_count>>
    /\ streak' = 0
    /\ cpc' = [cpc EXCEPT ![t] = "idle"]
    /\ outcome' = [outcome EXCEPT ![t] = "ok"]
    /\ ctmp' = [ctmp EXCEPT ![t] = 0]
    /\ trial' = [trial EXCEPT ![t] = FALSE]
    /\ UNCHANGED <<impl, is_open, last_failure_time, now, nfail, nsucc, ncalls>>
    /\ UNCHANGED notBreaker

\* self.failure_count += 1, first half: load self.failure_count
IBFailLoad(t) ==
    /\ impl = "infobridge"
    /\ cpc[t] = "fail"
    /\ ctmp' = [ctmp EXCEPT ![t] = failure_count]
    /\ cpc' = [cpc EXCEPT ![t] = "fail_store"]
    /\ UNCHANGED <<impl, cb_state, is_open, failure_count, success_count,
                   last_failure_time, now, outcome, nfail, nsucc, ncalls,
                   streak, trial>>
    /\ UNCHANGED notBreaker

\* self.failure_count += 1, second half: store the sum; then
\* self.last_failure_time = time.time();
\* if self.failure_count >= self.failure_threshold: self.state = 'open'.  raise e
IBFailStore(t) ==
    /\ impl = "infobridge"
    /\ cpc[t] = "fail_store"
    /\ failure_count' = ctmp[t] + 1
    /\ last_failure_time' = now
    /\ cb_state' = IF ThresholdReached(ctmp[t] + 1) THEN "open" ELSE cb_state
    /\ streak' = streak + 1
    /\ cpc' = [cpc EXCEPT ![t] = "idle"]
    /\ outcome' = [outcome EXCEPT ![t] = "error"]
    /\ ctmp' = [ctmp EXCEPT ![t] = 0]
    /\ trial' = [trial EXCEPT ![t] = FALSE]
    /\ UNCHANGED <<impl, is_open, success_count, now, nfail, nsucc, ncalls>>
    /\ UNCHANGED notBreaker

\* ---- app101.py CircuitBreaker.call: each `with self._lock:` block holds no
\* blocking call, so it is one step; func runs outside the lock.

\* with self._lock: if self.is_open: if time.time() - self.last_failure_time >
\* self.recovery_timeout: is_open = False; failure_count = 0
\* else: raise Exception("Circuit breaker is open")
AGate(t) ==
    /\ impl = "app101"
    /\ cpc[t] = "idle"
    /\ ncalls < MaxCalls
    /\ ncalls' = ncalls + 1
    /\ IF is_open
       THEN IF RecoveryElapsed
            THEN /\ is_open' = FALSE
                 /\ failure_count' = 0
                 /\ streak' = 0
                 /\ cpc' = [cpc EXCEPT ![t] = "invoke"]
                 /\ outcome' = [outcome EXCEPT ![t] = "none"]
                 /\ trial' = [trial EXCEPT ![t] = TRUE]
            ELSE /\ outcome' = [outcome EXCEPT ![t] = "rejected"]
                 /\ trial' = [trial EXCEPT ![t] = FALSE]
                 /\ UNCHANGED <<is_open, failure_count, streak, cpc>>
       ELSE /\ cpc' = [cpc EXCEPT ![t] = "invoke"]
            /\ outcome' = [outcome EXCEPT ![t] = "none"]
            /\ trial' = [trial EXCEPT ![t] = FALSE]
            /\ UNCHANGED <<is_open, failure_count, streak>>
    /\ UNCHANGED <<impl, cb_state, success_count, last_failure_time, now, ctmp,
                   nfail, nsucc>>
    /\ UNCHANGED notBreaker

\* with self._lock: self.failure_count = 0.  return result
ASuccess(t) ==
    /\ impl = "app101"
    /\ cpc[t] = "succ"
    /\ failure_count' = 0
    /\ streak' = 0
    /\ cpc' = [cpc EXCEPT ![t] = "idle"]
    /\ outcome' = [outcome EXCEPT ![t] = "ok"]
    /\ trial' = [trial EXCEPT ![t] = FALSE]
    /\ UNCHANGED <<impl, cb_state, is_open, success_count, last_failure_time, now,
                   ctmp, nfail, nsucc, ncalls>>
    /\ UNCHANGED notBreaker

\* with self._lock: self.failure_count += 1; self.last_failure_time = time.time();
\* if self.failure_count >= self.failure_threshold: self.is_open = True.  raise e
AFailure(t) ==
    /\ impl = "app101"
    /\ cpc[t] = "fail"
    /\ failure_count' = failure_count + 1
    /\ last_failure_time' = now
    /\ is_open' = IF ThresholdReached(failure_count + 1) THEN TRUE ELSE is_open
    /\ streak' = streak + 1
    /\ cpc' = [cpc EXCEPT ![t] = "idle"]
    /\ outcome' = [outcome EXCEPT ![t] = "error"]
    /\ trial' = [trial EXCEPT ![t] = FALSE]
    /\ UNCHANGED <<impl, cb_state, success_count, now, ctmp, nfail, nsucc, ncalls>>
    /\ UNCHANGED notBreaker

BreakerNext ==
    \/ Tick
    \/ \E t \in Callers : IBGate(t)
    \/ \E t \in Callers : Invoke(t)
    \/ \E t \in Callers : IBSuccess(t)
    \/ \E t \in Callers : IBSuccessStore(t)
    \/ \E t \in Callers : IBFailLoad(t)
    \/ \E t \in Callers : IBFailStore(t)
    \/ \E t \in Callers : AGate(t)
    \/ \E t \in Callers : ASuccess(t)
    \/ \E t \in Callers : AFailure(t)

SpecBreaker == BreakerInit /\ [][BreakerNext]_vars

\* The breaker refuses calls: infobridge state 'open', app101 is_open.
BreakerOpen == IF impl = "infobridge" THEN cb_state = "open" ELSE is_open

\* The breaker is in its normal pass-through state.
BreakerClosed == IF impl = "infobridge" THEN cb_state = "closed" ELSE ~is_open

AllIdle == \A t \in Callers : cpc[t] = "idle"

(***************************************************************************)
(* Claims about CircuitBreaker                                             *)
(***************************************************************************)

\* C6: a closed breaker opens only once failure_threshold failures in a row
\* have been recorded (a success in between restarts the count), and it
\* records last_failure_time at that moment.
C6_OpensOnConsecutiveFailures ==
    [][(BreakerClosed /\ BreakerOpen')
         => (streak' >= failure_threshold /\ last_failure_time' = now)]_vars

\* C7: a call made while the breaker is open and recovery_timeout has not
\* elapsed is refused without running the protected function and changes
\* neither the state, the counters nor last_failure_time.
C7_FailFastChangesNothing ==
    [][(BreakerOpen /\ now - last_failure_time <= recovery_timeout
          /\ ncalls' # ncalls)
         => /\ cpc' = cpc
            /\ \E t \in Callers : outcome'[t] = "rejected" /\ ~trial'[t]
            /\ UNCHANGED <<cb_state, is_open, failure_count, success_count,
                           last_failure_time, nfail, nsucc>>]_vars

\* C7 witness: a call was refused while the breaker is open inside the
\* recovery window.
C7_Witness ==
    /\ BreakerOpen
    /\ now - last_failure_time <= recovery_timeout
    /\ \E t \in Callers : outcome[t] = "rejected"

\* C8: when success_threshold successes in a row close a half-open breaker,
\* the failure counter and the success counter are both reset to 0.
C8_CloseResetsBothCounters ==
    [][(cb_state = "half_open" /\ cb_state' = "closed")
         => (failure_count' = 0 /\ success_count' = 0)]_vars

\* C9: when a trial call (one let through after recovery_timeout) fails, the
\* breaker is open as soon as the failure is recorded.
C9_FailedTrialReopens ==
    [][\A t \in Callers :
         (trial[t] /\ cpc[t] \in {"fail", "fail_store"} /\ cpc'[t] = "idle")
           => BreakerOpen']_vars

\* C10: failures of concurrent callers are all counted: with no success and
\* no call in progress, failure_count equals the number of failed calls, and
\* the breaker is open once that number reaches the threshold.
C10_NoFailureLost ==
    (AllIdle /\ nsucc = 0 /\ nfail <= failure_threshold)
      => /\ failure_count = nfail
         /\ (nfail >= failure_threshold => BreakerOpen)

(***************************************************************************)
(* app101.py GoogleCalendarManager                                         *)
(*                                                                         *)
(* Times are minutes of one calendar day; timezone conversion keeps the    *)
(* instant, so local minutes stand for it.  A worker thread is a request   *)
(* handler calling check_availability or create_appointment.               *)
(***************************************************************************)
appointment_duration == 60
buffer_minutes == 15

NSlots == 3
MaxOps == 4

\* time_slots of find_next_available_slots: "8:00 AM" .. "5:00 PM", every 30
\* minutes; slot i of the list as minutes of the day.
SlotMinutes(i) == 480 + 30 * (i - 1)

\* The grid slots requests are drawn from: 10:00 AM onwards.
ReqSlots == 5..(4 + NSlots)

\* Events another party may already hold in the calendar, as <<start, end>>.
ExternalCandidates == {<<540, 600>>, <<690, 720>>}

ExternalEvent(iv) == [id |-> 1000 + iv[1], start |-> iv[1], end |-> iv[2], by |-> 0]

\* events().list(timeMin, timeMax, singleEvents=True): the events that end
\* after timeMin and start before timeMax.
ListEvents(time_min, time_max) ==
    {ev \in events : ev.end > time_min /\ ev.start < time_max}

\* has_overlap with the comparison of its first case made inclusive at the
\* event's end.
HasOverlapInclusive(appointment_date, appointment_end, event_start, event_end) ==
    \/ (appointment_date >= event_start /\ appointment_date <= event_end)
    \/ (appointment_end > event_start /\ appointment_end <= event_end)
    \/ (appointment_date <= event_start /\ appointment_end >= event_end)
    \/ (event_start <= appointment_date /\ event_end >= appointment_end)

\* has_overlap of check_availability: the four cases, joined by or.
HasOverlap(appointment_date, appointment_end, event_start, event_end) ==
    \/ (appointment_date >= event_start /\ appointment_date < event_end)
    \/ (appointment_end > event_start /\ appointment_end <= event_end)
    \/ (appointment_date <= event_start /\ appointment_end >= event_end)
    \/ (event_start <= appointment_date /\ event_end >= appointment_end)

\* The body of check_availability once the event list is read: "conflict" at
\* the first listed event, other than exclude_event_id, that overlaps.
CheckResult(slot, exclude_event_id) ==
    LET appointment_date == SlotMinutes(slot)
        appointment_end == appointment_date + appointment_duration
        listed == ListEvents(appointment_date - buffer_minutes,
                             appointment_end + buffer_minutes)
    IN  IF \E ev \in listed :
              /\ ~(exclude_event_id # 0 /\ ev.id = exclude_event_id)
              /\ HasOverlap(appointment_date, appointment_end, ev.start, ev.end)
        THEN "conflict"
        ELSE "available"

\* The lock taken with no regard to its holder.
LockFreeAlways(t) == TRUE

\* threading.Lock: `with self._lock:` goes on only while no thread, the
\* caller included, holds the lock.
LockFree(t) == lock = 0

\* Leaving n nested `with self._lock:` blocks.
LockAfterRelease(n) == IF depth - n <= 0 THEN 0 ELSE lock
DepthAfterRelease(n) == IF depth - n <= 0 THEN 0 ELSE depth - n

CalendarInit ==
    /\ impl = "app101"
    /\ BreakerIdle
    /\ service \in BOOLEAN
    /\ events \in {{ExternalEvent(iv) : iv \in S} : S \in SUBSET ExternalCandidates}
    /\ CalendarIdle
    /\ gcal = "none"
    /\ BookingIdle
    /\ SessionIdle
    /\ TurnIdle
    /\ AIIdle
    /\ SlotsIdle
    /\ OverlapIdle
    /\ FinishIdle
    /\ ParallelIdle
    /\ DatesIdle
    /\ NearestIdle
    /\ ServicesIdle
    /\ YearsIdle

\* check_availability(date, time) called by a handler (_check_and_set_time,
\* complete_booking, find_next_available_slots):
\* if not self.service: return (True, None)
CallCheck(t) ==
    /\ apc[t] = "idle"
    /\ nops < MaxOps
    /\ nops' = nops + 1
    /\ \E slot \in ReqSlots :
         /\ areq' = [areq EXCEPT ![t] = slot]
         /\ aop' = [aop EXCEPT ![t] = "check"]
         /\ aexcl' = [aexcl EXCEPT ![t] = 0]
         /\ IF service
            THEN /\ apc' = [apc EXCEPT ![t] = "chk_lock"]
                 /\ aret' = [aret EXCEPT ![t] = "none"]
            ELSE /\ aret' = [aret EXCEPT ![t] = "available"]
                 /\ UNCHANGED apc
    /\ UNCHANGED <<service, events, lock, depth>>
    /\ UNCHANGED notCalendar

\* create_appointment(appointment) called by complete_booking:
\* if not self.service: return (False, None, "Calendar service not available")
CallCreate(t) ==
    /\ apc[t] = "idle"
    /\ nops < MaxOps
    /\ nops' = nops + 1
    /\ \E slot \in ReqSlots :
         /\ areq' = [areq EXCEPT ![t] = slot]
         /\ aop' = [aop EXCEPT ![t] = "create"]
         /\ aexcl' = [aexcl EXCEPT ![t] = 0]
         /\ IF service
            THEN /\ apc' = [apc EXCEPT ![t] = "cr_lock"]
                 /\ aret' = [aret EXCEPT ![t] = "none"]
            ELSE /\ aret' = [aret EXCEPT ![t] = "no_service"]
                 /\ UNCHANGED apc
    /\ UNCHANGED <<service, events, lock, depth>>
    /\ UNCHANGED notCalendar

\* create_appointment: `with self._lock:` entered, then the call
\* self.check_availability(appointment.date, appointment.time), which comes
\* to its own `with self._lock:`
CreateAcquire(t) ==
    /\ apc[t] = "cr_lock"
    /\ LockFree(t)
    /\ lock' = t
    /\ depth' = depth + 1
    /\ apc' = [apc EXCEPT ![t] = "chk_lock"]
    /\ UNCHANGED <<service, events, aop, areq, aexcl, aret, nops>>
    /\ UNCHANGED notCalendar

\* check_availability: `with self._lock:` entered
CheckAcquire(t) ==
    /\ apc[t] = "chk_lock"
    /\ LockFree(t)
    /\ lock' = t
    /\ depth' = depth + 1
    /\ apc' = [apc EXCEPT ![t] = "chk_run"]
    /\ UNCHANGED <<service, events, aop, areq, aexcl, aret, nops>>
    /\ UNCHANGED notCalendar

\* The calendar request a thread has pending is answered, or raises.
\* At "chk_run": events().list(...).execute() and the rest of
\* check_availability, which leaves its `with` block and returns to
\*   a handler: (True, None), (False, conflict_msg) or, on an exception,
\*     (False, "unable to verify availability due to system error");
\*   create_appointment before the insert: if not is_available it returns
\*     (False, None, error_msg), else it goes on to the insert;
\*   create_appointment after the insert (is_still_available is only
\*     printed): it returns (True, event_id, None).
\* At "cr_insert": events().insert(...).execute(); then time.sleep(0.5) and
\* check_availability(date, time, exclude_event_id=event_id); an exception
\* leaves the `with` block and returns (False, None, error_msg).
CalendarReply(t) ==
    /\ apc[t] \in {"chk_run", "cr_insert"}
    /\ \E api_ok \in BOOLEAN :
         IF apc[t] = "chk_run"
         THEN LET r == IF api_ok THEN CheckResult(areq[t], aexcl[t])
                       ELSE "unverified"
              IN  CASE aop[t] = "check" ->
                         /\ aret' = [aret EXCEPT ![t] = r]
                         /\ apc' = [apc EXCEPT ![t] = "idle"]
                         /\ lock' = LockAfterRelease(1)
                         /\ depth' = DepthAfterRelease(1)
                         /\ UNCHANGED <<events, aop, aexcl>>
                    [] aop[t] = "create" /\ r # "available" ->
                         /\ aret' = [aret EXCEPT ![t] = r]
                         /\ apc' = [apc EXCEPT ![t] = "idle"]
                         /\ lock' = LockAfterRelease(2)
                         /\ depth' = DepthAfterRelease(2)
                         /\ UNCHANGED <<events, aop, aexcl>>
                    [] aop[t] = "create" /\ r = "available" ->
                         /\ apc' = [apc EXCEPT ![t] = "cr_insert"]
                         /\ lock' = LockAfterRelease(1)
                         /\ depth' = DepthAfterRelease(1)
                         /\ UNCHANGED <<events, aop, aexcl, aret>>
                    [] aop[t] = "create_verify" ->
                         /\ aret' = [aret EXCEPT ![t] = "success"]
                         /\ apc' = [apc EXCEPT ![t] = "idle"]
                         /\ aop' = [aop EXCEPT ![t] = "create"]
                         /\ lock' = LockAfterRelease(2)
                         /\ depth' = DepthAfterRelease(2)
                         /\ UNCHANGED <<events, aexcl>>
         ELSE IF api_ok
              THEN LET event_id == Cardinality(events) + 1
                   IN  /\ events' = events \cup
                            {[id |-> event_id,
                              start |-> SlotMinutes(areq[t]),
                              end |-> SlotMinutes(areq[t]) + appointment_duration,
                              by |-> t]}
                       /\ aexcl' = [aexcl EXCEPT ![t] = event_id]
                       /\ aop' = [aop EXCEPT ![t] = "create_verify"]
                       /\ apc' = [apc EXCEPT ![t] = "chk_lock"]
                       /\ UNCHANGED <<lock, depth, aret>>
              ELSE /\ aret' = [aret EXCEPT ![t] = "error"]
                   /\ apc' = [apc EXCEPT ![t] = "idle"]
                   /\ lock' = LockAfterRelease(1)
                   /\ depth' = DepthAfterRelease(1)
                   /\ UNCHANGED <<events, aop, aexcl>>
    /\ UNCHANGED <<service, areq, nops>>
    /\ UNCHANGED notCalendar

CalendarNext ==
    \/ \E t \in Workers : CallCheck(t)
    \/ \E t \in Workers : CallCreate(t)
    \/ \E t \in Workers : CreateAcquire(t)
    \/ \E t \in Workers : CheckAcquire(t)
    \/ \E t \in Workers : CalendarReply(t)

SpecCalendar == CalendarInit /\ [][CalendarNext]_vars

(***************************************************************************)
(* Claims about app101.py GoogleCalendarManager                            *)
(***************************************************************************)

\* A thread stands at `with self._lock:` and cannot enter.
\* BlockedForever: the holder of the lock it waits for itself waits for
\* _lock, so the holder never releases it and the wait never ends.
Waiting(t) == apc[t] \in {"cr_lock", "chk_lock"} /\ ~LockFree(t)

BlockedForever(t) == Waiting(t) /\ lock \in Workers /\ Waiting(lock)

\* The thread is not inside a call, or can never take another step.
Quiescent(t) == apc[t] = "idle" \/ BlockedForever(t)

\* No event of another party stands in the way of the slot.
FreeOfExternal(slot) ==
    \A ev \in events :
      ev.by = 0 => ~HasOverlap(SlotMinutes(slot),
                               SlotMinutes(slot) + appointment_duration,
                               ev.start, ev.end)

\* The events create_appointment inserted.
Booked == {ev \in events : ev.by # 0}

\* C1: when two create_appointment calls for the same free slot are the only
\* calls made and neither can go on, both have returned, one with success and
\* one with a conflict, and the calendar holds one event for the slot.
C1_TwoCreatesOneWins ==
    \A t1, t2 \in Workers :
      (/\ t1 # t2
       /\ service
       /\ nops = 2
       /\ aop[t1] \in {"create", "create_verify"}
       /\ aop[t2] \in {"create", "create_verify"}
       /\ areq[t1] = areq[t2]
       /\ FreeOfExternal(areq[t1])
       /\ Quiescent(t1) /\ Quiescent(t2)
       /\ aret[t1] \notin {"error", "unverified"}
       /\ aret[t2] \notin {"error", "unverified"})
      => /\ apc[t1] = "idle" /\ apc[t2] = "idle"
         /\ {aret[t1], aret[t2]} = {"success", "conflict"}
         /\ Cardinality({ev \in Booked : ev.start = SlotMinutes(areq[t1])}) = 1

C5_NoThreadBlockedForever == \A t \in Workers : ~BlockedForever(t)

(***************************************************************************)
(* infobridge.py: _finish_booking_lightning over GoogleCalendarManager's   *)
(* cached check_availability and its create_appointment                    *)
(*                                                                         *)
(* A call session's turn is a SpeechTurn that leaves name, service, date   *)
(* and time all present, so that handle_user_input_lightning goes to       *)
(* _finish_booking_lightning.  All sessions ask for the same date.  Flask  *)
(* serves each request on its own thread, and neither the handler nor the  *)
(* manager takes a lock, so the handler's calendar calls are steps between *)
(* which other sessions and the cache refresh thread run.                  *)
(***************************************************************************)
cache_ttl == 300
refresh_sleep == 300
duration_minutes == 60

MaxTurns == 3
CacheTick == 150
MaxCacheClock == 450

\* BusinessConfig.available_times as minutes of the day: "8:00 AM" ..
\* "4:30 PM" every 30 minutes, without "12:30 PM".
available_times ==
    <<480, 510, 540, 570, 600, 630, 660, 690, 720,
      780, 810, 840, 870, 900, 930, 960, 990>>

\* The cache test with an entry whose age equals cache_ttl still served.
CacheFreshInclusive(k) ==
    /\ availability_cache[k] # NoEntry
    /\ now - availability_cache[k].timestamp <= cache_ttl

\* cache_key in self.availability_cache and
\* time.time() - cached['timestamp'] < self.cache_ttl
CacheFresh(k) ==
    /\ availability_cache[k] # NoEntry
    /\ now - availability_cache[k].timestamp < cache_ttl

\* _check_availability_internal with self.service set and no exception:
\* events().list(timeMin = start, timeMax = start + 1 hour) is empty
CalendarSlotEmpty(k) ==
    LET time_min == available_times[k]
        time_max == available_times[k] + 60
    IN  {ev \in ib_events : ev.end > time_min /\ ev.start < time_max} = {}

\* _check_availability_internal: True with no service, True on an exception
\* of the calendar call, else whether the slot's hour is empty.
InternalAvailable(k, api_ok) ==
    IF gcal # "ready" THEN TRUE
    ELSE IF ~api_ok THEN TRUE
    ELSE CalendarSlotEmpty(k)

\* What answers check_availability(date, time).
CheckSource(k, api_ok) ==
    IF CacheFresh(k) THEN "cache"
    ELSE IF gcal # "ready" THEN "no_service"
    ELSE IF ~api_ok THEN "fail_open"
    ELSE "calendar"

\* check_availability(date, time): the cached value while it is fresh, else
\* the internal check.
CheckAvailability(k, api_ok) ==
    IF CacheFresh(k) THEN availability_cache[k].available
    ELSE InternalAvailable(k, api_ok)

BookingInit ==
    /\ impl = "infobridge"
    /\ BreakerIdle
    /\ service = FALSE
    /\ events = {}
    /\ CalendarIdle
    /\ gcal \in {"none", "no_service", "ready"}
    /\ BookingIdle
    /\ SessionIdle
    /\ TurnIdle
    /\ AIIdle
    /\ SlotsIdle
    /\ OverlapIdle
    /\ FinishIdle
    /\ ParallelIdle
    /\ DatesIdle
    /\ NearestIdle
    /\ ServicesIdle
    /\ YearsIdle

BookingTick ==
    /\ now + CacheTick <= MaxCacheClock
    /\ now' = now + CacheTick
    /\ UNCHANGED bookingVars
    /\ UNCHANGED notBooking

\* handle_user_input_lightning up to check_booking_complete(session): the
\* extraction fills customer_data['time'] only when it is unset.
SpeechTurn(c) ==
    /\ bpc[c] = "idle"
    /\ nturns < MaxTurns
    /\ nturns' = nturns + 1
    /\ \E k \in BookSlots :
         btime' = [btime EXCEPT ![c] = IF btime[c] = 0 THEN k ELSE btime[c]]
    /\ bpc' = [bpc EXCEPT ![c] = IF gcal = "none" THEN "finish_create"
                                 ELSE "finish_check"]
    /\ bsrc' = [bsrc EXCEPT ![c] = "none"]
    /\ bsnap' = [bsnap EXCEPT ![c] = {}]
    /\ bresp' = [bresp EXCEPT ![c] = "none"]
    /\ UNCHANGED <<gcal, ib_events, availability_cache, appointments, rpc, ridx,
                   rwake, now, api_failed>>
    /\ UNCHANGED notBooking

\* _finish_booking_lightning: if self.google_calendar: if not
\* check_availability(date, time): say "no longer available",
\* customer_data.pop('time'), return
FinishCheck(c) ==
    /\ bpc[c] = "finish_check"
    /\ \E api_ok \in BOOLEAN :
         /\ bsrc' = [bsrc EXCEPT ![c] = CheckSource(btime[c], api_ok)]
         /\ api_failed' = (api_failed \/ CheckSource(btime[c], api_ok) = "fail_open")
         /\ IF CheckAvailability(btime[c], api_ok)
            THEN /\ bpc' = [bpc EXCEPT ![c] = "finish_create"]
                 /\ UNCHANGED <<btime, bresp>>
            ELSE /\ bpc' = [bpc EXCEPT ![c] = "idle"]
                 /\ btime' = [btime EXCEPT ![c] = 0]
                 /\ bresp' = [bresp EXCEPT ![c] = "unavailable"]
    /\ bsnap' = [bsnap EXCEPT ![c] = ib_events]
    /\ UNCHANGED <<gcal, ib_events, availability_cache, appointments, rpc, ridx,
                   rwake, nturns, now>>
    /\ UNCHANGED notBooking

\* _finish_booking_lightning from "Create appointment" on:
\* if self.google_calendar: event_id = create_appointment(appointment), which
\* is None with no service or on an exception of events().insert;
\* self.appointments.append(appointment); the confirmation is said.
FinishCreate(c) ==
    /\ bpc[c] = "finish_create"
    /\ \E api_ok \in BOOLEAN :
         LET inserted == gcal = "ready" /\ api_ok
             event_id == IF inserted THEN Cardinality(ib_events) + 1 ELSE 0
         IN  /\ ib_events' =
                  IF inserted
                  THEN ib_events \cup
                         {[id |-> event_id,
                           start |-> available_times[btime[c]],
                           end |-> available_times[btime[c]] + duration_minutes,
                           by |-> c]}
                  ELSE ib_events
             /\ appointments' = Append(appointments,
                  [sid |-> c, slot |-> btime[c], event_id |-> event_id])
             /\ api_failed' = (api_failed \/ (gcal = "ready" /\ ~api_ok))
    /\ bpc' = [bpc EXCEPT ![c] = "idle"]
    /\ bresp' = [bresp EXCEPT ![c] = "confirmed"]
    /\ bsnap' = [bsnap EXCEPT ![c] = {}]
    /\ UNCHANGED <<gcal, availability_cache, btime, bsrc, rpc, ridx, rwake,
                   nturns, now>>
    /\ UNCHANGED notBooking

\* _refresh_availability_cache, one pass of its inner loop: if self.service,
\* availability_cache[cache_key] = {'available':
\* _check_availability_internal(...), 'timestamp': time.time()}; after the
\* last slot, time.sleep(300).
RefreshEntry ==
    /\ gcal = "ready"
    /\ rpc = "scan"
    /\ \E api_ok \in BOOLEAN :
         /\ availability_cache' = [availability_cache EXCEPT ![ridx] =
              [available |-> InternalAvailable(ridx, api_ok), timestamp |-> now]]
         /\ api_failed' = (api_failed \/ ~api_ok)
    /\ IF ridx + 1 \in BookSlots
       THEN /\ ridx' = ridx + 1
            /\ UNCHANGED <<rpc, rwake>>
       ELSE /\ ridx' = 5
            /\ rpc' = "sleep"
            /\ rwake' = now + refresh_sleep
    /\ UNCHANGED <<gcal, ib_events, appointments, bpc, btime, bsrc, bsnap, bresp,
                   nturns, now>>
    /\ UNCHANGED notBooking

\* _refresh_availability_cache: time.sleep(300) is over, the next scan starts
RefreshWake ==
    /\ rpc = "sleep"
    /\ now >= rwake
    /\ rpc' = "scan"
    /\ UNCHANGED <<gcal, ib_events, availability_cache, appointments, bpc, btime,
                   bsrc, bsnap, bresp, ridx, rwake, nturns, now, api_failed>>
    /\ UNCHANGED notBooking

BookingNext ==
    \/ BookingTick
    \/ \E c \in Sessions : SpeechTurn(c)
    \/ \E c \in Sessions : FinishCheck(c)
    \/ \E c \in Sessions : FinishCreate(c)
    \/ RefreshEntry
    \/ RefreshWake

SpecBooking == BookingInit /\ [][BookingNext]_vars

(***************************************************************************)
(* Claims about the infobridge.py booking path                             *)
(***************************************************************************)

\* The slot is held by a calendar event another call session inserted.
BookedByOther(c, k, evs) ==
    \E ev \in evs : ev.by # c /\ ev.start = available_times[k]

\* C3: while no calendar call has failed, a session whose availability check
\* was answered when another session's event for the same slot was already
\* in the calendar does not go on to be booked.
C3_NoSlotBookedTwice ==
    \A c \in Sessions :
      (/\ gcal = "ready"
       /\ bpc[c] = "finish_create"
       /\ ~api_failed)
      => ~BookedByOther(c, btime[c], bsnap[c])

\* C4: every calendar insert follows an availability check that was not
\* answered from the cache, and nothing was inserted between that check and
\* the insert.
C4_InsertFollowsAuthoritativeCheck ==
    [][\A c \in Sessions :
         (\E ev \in ib_events' : ev \notin ib_events /\ ev.by = c)
           => (bsrc[c] # "cache" /\ bsnap[c] = ib_events)]_vars

(***************************************************************************)
(* The call session store: self.call_sessions and the webhook handlers     *)
(* that create, look up and remove sessions                                *)
(*                                                                         *)
(* A request thread serves one webhook request at a time.  app101.py       *)
(* guards the map with session_lock, a threading.Lock; infobridge.py has   *)
(* no lock on it and no session cleanup thread.                            *)
(***************************************************************************)
MaxEvents == 3
SessionTick == 2000
MaxSessionClock == 2500

\* The CallStatus values of a status callback.
Statuses == {"completed", "failed", "busy", "no-answer", "in-progress"}

\* Only "completed" taken as the end of a call.
CallEndedStatusesShort == {"completed"}

\* if call_status in ['completed', 'failed', 'busy', 'no-answer']
CallEndedStatuses == {"completed", "failed", "busy", "no-answer"}

\* with self.session_lock: the lock is a threading.Lock, free for no holder.
\* infobridge.py takes no lock.
SessionLockFree == impl = "app101" => session_lock = 0

SessionInit ==
    /\ impl \in Impls
    /\ BreakerIdle
    /\ service = FALSE
    /\ events = {}
    /\ CalendarIdle
    /\ gcal = "none"
    /\ BookingIdle
    /\ SessionIdle
    /\ TurnIdle
    /\ AIIdle
    /\ SlotsIdle
    /\ OverlapIdle
    /\ FinishIdle
    /\ ParallelIdle
    /\ DatesIdle
    /\ NearestIdle
    /\ ServicesIdle
    /\ YearsIdle

SessionClockTick ==
    /\ now + SessionTick <= MaxSessionClock
    /\ now' = now + SessionTick
    /\ UNCHANGED sessionVars
    /\ UNCHANGED notSessions

\* POST /webhook/voice arrives: handle_voice calls handle_incoming_call /
\* handle_incoming_call_enhanced
VoiceWebhook(h) ==
    /\ hpc[h] = "idle"
    /\ nevents < MaxEvents
    /\ nevents' = nevents + 1
    /\ \E id \in CallIds : hsid' = [hsid EXCEPT ![h] = id]
    /\ hkind' = [hkind EXCEPT ![h] = "voice"]
    /\ hstatus' = [hstatus EXCEPT ![h] = "none"]
    /\ hpc' = [hpc EXCEPT ![h] = "incoming"]
    /\ hgen' = [hgen EXCEPT ![h] = 0]
    /\ hresp' = [hresp EXCEPT ![h] = "none"]
    /\ UNCHANGED <<call_sessions, session_lock, reap_at, nsess, last_turn, ended,
                   now>>
    /\ UNCHANGED notSessions

\* POST /webhook/gather arrives: handle_gather calls handle_speech_input /
\* handle_user_input_lightning
GatherWebhook(h) ==
    /\ hpc[h] = "idle"
    /\ nevents < MaxEvents
    /\ nevents' = nevents + 1
    /\ \E id \in CallIds : hsid' = [hsid EXCEPT ![h] = id]
    /\ hkind' = [hkind EXCEPT ![h] = "gather"]
    /\ hstatus' = [hstatus EXCEPT ![h] = "none"]
    /\ hpc' = [hpc EXCEPT ![h] = "speech"]
    /\ hgen' = [hgen EXCEPT ![h] = 0]
    /\ hresp' = [hresp EXCEPT ![h] = "none"]
    /\ UNCHANGED <<call_sessions, session_lock, reap_at, nsess, last_turn, ended,
                   now>>
    /\ UNCHANGED notSessions

\* POST /webhook/status arrives: handle_status / handle_call_status
StatusWebhook(h) ==
    /\ hpc[h] = "idle"
    /\ nevents < MaxEvents
    /\ nevents' = nevents + 1
    /\ \E id \in CallIds : hsid' = [hsid EXCEPT ![h] = id]
    /\ \E st \in Statuses : hstatus' = [hstatus EXCEPT ![h] = st]
    /\ hkind' = [hkind EXCEPT ![h] = "status"]
    /\ hpc' = [hpc EXCEPT ![h] = "status"]
    /\ hgen' = [hgen EXCEPT ![h] = 0]
    /\ hresp' = [hresp EXCEPT ![h] = "none"]
    /\ UNCHANGED <<call_sessions, session_lock, reap_at, nsess, last_turn, ended,
                   now>>
    /\ UNCHANGED notSessions

\* handle_incoming_call (app101.py): with self.session_lock:
\*   session = CallSession(call_sid=call_sid); self.call_sessions[call_sid] = session
\* handle_incoming_call_enhanced (infobridge.py): the same with no lock.
\* The greeting is returned.
HandleIncomingCall(h) ==
    /\ hpc[h] = "incoming"
    /\ SessionLockFree
    /\ call_sessions' = [call_sessions EXCEPT ![hsid[h]] =
         [gen |-> nsess + 1, state |-> "greeting", history |-> 0,
          created_at |-> now]]
    /\ nsess' = nsess + 1
    /\ last_turn' = [last_turn EXCEPT ![hsid[h]] = now]
    /\ hpc' = [hpc EXCEPT ![h] = "idle"]
    /\ hresp' = [hresp EXCEPT ![h] = "greeting"]
    /\ hkind' = [hkind EXCEPT ![h] = "none"]
    /\ hsid' = [hsid EXCEPT ![h] = 0]
    /\ hstatus' = [hstatus EXCEPT ![h] = "none"]
    /\ hgen' = [hgen EXCEPT ![h] = 0]
    /\ UNCHANGED <<session_lock, reap_at, nevents, ended, now>>
    /\ UNCHANGED notSessions

\* handle_speech_input (app101.py): with self.session_lock:
\*   session = self.call_sessions.get(call_sid)
\*   if not session: return self.handle_incoming_call()
\* which is called inside the `with` block, the lock held.
\* handle_user_input_lightning (infobridge.py), no lock:
\*   if call_sid not in self.call_sessions: return self.handle_incoming_call_enhanced()
\*   session = self.call_sessions[call_sid]
HandleSpeechInput(h) ==
    /\ hpc[h] = "speech"
    /\ SessionLockFree
    /\ IF call_sessions[hsid[h]] = NoSession
       THEN /\ hpc' = [hpc EXCEPT ![h] = "incoming"]
            /\ session_lock' = IF impl = "app101" THEN h ELSE session_lock
            /\ UNCHANGED hgen
       ELSE /\ hpc' = [hpc EXCEPT ![h] = "process"]
            /\ hgen' = [hgen EXCEPT ![h] = call_sessions[hsid[h]].gen]
            /\ UNCHANGED session_lock
    /\ UNCHANGED <<call_sessions, hkind, hsid, hstatus, hresp, reap_at, nsess,
                   nevents, last_turn, ended, now>>
    /\ UNCHANGED notSessions

\* The turn on the session object that was looked up: session.add_message /
\* session.attempts += 1, the state machine moves on, the reply is returned.
\* The object may have left the map since the lookup.
ProcessTurn(h) ==
    /\ hpc[h] = "process"
    /\ IF call_sessions[hsid[h]].gen = hgen[h]
       THEN /\ call_sessions' = [call_sessions EXCEPT ![hsid[h]] =
                 [@ EXCEPT !.state = "gathering", !.history = @ + 1]]
            /\ last_turn' = [last_turn EXCEPT ![hsid[h]] = now]
       ELSE UNCHANGED <<call_sessions, last_turn>>
    /\ hpc' = [hpc EXCEPT ![h] = "idle"]
    /\ hresp' = [hresp EXCEPT ![h] = "reply"]
    /\ hkind' = [hkind EXCEPT ![h] = "none"]
    /\ hsid' = [hsid EXCEPT ![h] = 0]
    /\ hstatus' = [hstatus EXCEPT ![h] = "none"]
    /\ hgen' = [hgen EXCEPT ![h] = 0]
    /\ UNCHANGED <<session_lock, reap_at, nsess, nevents, ended, now>>
    /\ UNCHANGED notSessions

\* handle_call_status (app101.py):
\*   if call_status in [...]: with self.session_lock:
\*     if call_sid in self.call_sessions: del self.call_sessions[call_sid]
\* handle_status (infobridge.py): the same with no lock; the dict operations
\* are atomic and a KeyError of the del is caught, so one step stands for it.
HandleCallStatus(h) ==
    /\ hpc[h] = "status"
    /\ IF hstatus[h] \in CallEndedStatuses
       THEN /\ SessionLockFree
            /\ call_sessions' = [call_sessions EXCEPT ![hsid[h]] = NoSession]
            /\ ended' = IF call_sessions[hsid[h]] # NoSession
                         THEN ended \cup {hsid[h]}
                         ELSE ended
       ELSE UNCHANGED <<call_sessions, ended>>
    /\ hpc' = [hpc EXCEPT ![h] = "idle"]
    /\ hresp' = [hresp EXCEPT ![h] = "empty"]
    /\ hkind' = [hkind EXCEPT ![h] = "none"]
    /\ hsid' = [hsid EXCEPT ![h] = 0]
    /\ hstatus' = [hstatus EXCEPT ![h] = "none"]
    /\ hgen' = [hgen EXCEPT ![h] = 0]
    /\ UNCHANGED <<session_lock, reap_at, nsess, nevents, last_turn, now>>
    /\ UNCHANGED notSessions

\* cleanup_sessions (app101.py), after time.sleep(60): with self.session_lock:
\*   age = (now - session.created_at).total_seconds()
\*   if age > 1800: expired.append(sid);  del self.call_sessions[sid]
CleanupSessions ==
    /\ impl = "app101"
    /\ now >= reap_at
    /\ SessionLockFree
    /\ call_sessions' = [id \in CallIds |->
         IF /\ call_sessions[id] # NoSession
            /\ now - call_sessions[id].created_at > session_max_age
         THEN NoSession
         ELSE call_sessions[id]]
    /\ reap_at' = now + cleanup_sleep
    /\ UNCHANGED <<session_lock, hpc, hkind, hsid, hstatus, hgen, hresp, nsess,
                   nevents, last_turn, ended, now>>
    /\ UNCHANGED notSessions

SessionNext ==
    \/ SessionClockTick
    \/ \E h \in Handlers : VoiceWebhook(h)
    \/ \E h \in Handlers : GatherWebhook(h)
    \/ \E h \in Handlers : StatusWebhook(h)
    \/ \E h \in Handlers : HandleIncomingCall(h)
    \/ \E h \in Handlers : HandleSpeechInput(h)
    \/ \E h \in Handlers : ProcessTurn(h)
    \/ \E h \in Handlers : HandleCallStatus(h)
    \/ CleanupSessions

SpecSessions == SessionInit /\ [][SessionNext]_vars

(***************************************************************************)
(* Claims about the call session store                                     *)
(***************************************************************************)

\* C11: a call-started request for a call id that has a live session leaves
\* that session's state and conversation history, and every other session, as
\* they were.
C11_CallStartedKeepsLiveSession ==
    [][\A h \in Handlers :
         (/\ hkind[h] = "voice"
          /\ hpc[h] = "incoming" /\ hpc'[h] = "idle"
          /\ call_sessions[hsid[h]] # NoSession)
         => /\ call_sessions'[hsid[h]].state = call_sessions[hsid[h]].state
            /\ call_sessions'[hsid[h]].history = call_sessions[hsid[h]].history
            /\ \A id \in CallIds :
                 id # hsid[h] => call_sessions'[id] = call_sessions[id]]_vars

\* C12: a speech turn for a call id with no session goes on to create the
\* session and return the greeting: its handler is never left waiting for
\* session_lock while holding that lock itself.
C12_SpeechForUnknownIdGreets ==
    \A h \in Handlers :
      ~(hkind[h] = "gather" /\ hpc[h] = "incoming" /\ ~SessionLockFree
          /\ session_lock = h)

\* C13: the status callback of an ended call (completed, failed, busy or
\* no-answer) leaves no session for its call id and every other session as
\* it was; for a call id with no session it changes nothing.
C13_CallEndedRemovesThatSession ==
    [][\A h \in Handlers :
         (/\ hpc[h] = "status" /\ hpc'[h] = "idle"
          /\ hstatus[h] \in {"completed", "failed", "busy", "no-answer"})
         => /\ call_sessions'[hsid[h]] = NoSession
            /\ \A id \in CallIds :
                 id # hsid[h] => call_sessions'[id] = call_sessions[id]
            /\ call_sessions[hsid[h]] = NoSession
                 => call_sessions' = call_sessions]_vars

\* C13 witness: a status callback has removed the live session of its call
\* id, which has no session now, while another call's session is in the map.
C13_Witness ==
    \E id \in ended, other \in CallIds :
      /\ call_sessions[id] = NoSession
      /\ other # id /\ call_sessions[other] # NoSession

\* C14: the cleanup thread removes a session only when no turn has been
\* processed for it for longer than the timeout.
C14_ReaperEvictsOnlyIdleSessions ==
    [][\A id \in CallIds :
         (/\ reap_at' # reap_at
          /\ call_sessions[id] # NoSession
          /\ call_sessions'[id] = NoSession)
         => now - last_turn[id] > session_max_age]_vars

(***************************************************************************)
(* Speech turns: extract_booking_info, the completeness check, the booking *)
(***************************************************************************)
MaxUtterances == 2

\* The value session.customer_data['from_number'] gives to the phone field.
CallerNumber == -1

\* required = ['name', 'service', 'date', 'time'], and the phone
RequiredFields == {"name", "service", "date", "time"}
BookingFields == RequiredFields \cup {"phone"}

\* An utterance is described by what the extractors of the implementation
\* find in it.  k is its place in the call and stands for its wording: every
\* value extracted from it is k.
\*   nm  "phrase": a name pattern ("my name is ...") matches and is accepted;
\*       "bare": only the bare-name reading applies (app101: the words left
\*       after the filler words are one to three; infobridge: the whole
\*       utterance is letters only)
\*   sv  a service keyword occurs;  dt  extract_date finds a day
\*   tm  "clock": a clock time with am/pm or hundreds, such as "2pm";
\*       "nine": the text "9:00" with nothing after it; "word": morning,
\*       afternoon, evening
\*   ph  the ten digits of a phone number occur
Utterances ==
    { u \in [k : {nutt + 1}, nm : {"none", "phrase", "bare"}, sv : BOOLEAN,
             dt : BOOLEAN, tm : {"none", "clock", "nine", "word"}, ph : BOOLEAN] :
        (impl = "infobridge" /\ u.nm = "bare")
            => (~u.ph /\ u.tm \in {"none", "word"}) }

\* What the collaborators answer during one turn: free, the calendar's
\* answer to every availability check of the turn; ai, whether the AI names
\* a time when extract_time of app101 asks it; late, the extraction future
\* of infobridge's parallel path is not done in 0.1 s.
Answers ==
    { a \in [free : BOOLEAN, ai : BOOLEAN, late : BOOLEAN] :
        /\ (calendar_manager = "none" \/
            (impl = "app101" /\ calendar_manager = "no_service")) => a.free
        /\ ~(impl = "app101" /\ gemini_enabled) => ~a.ai
        /\ ~(impl = "infobridge" /\ enable_parallel) => ~a.late }

\* app101 extract_time: any of the three patterns that matches hands
\* match.groups() to a formatter that indexes it from 1, which raises
\* IndexError; otherwise the AI's answer if it is a time, then the time words.
ExtractTime(u, ai) ==
    IF u.tm = "clock" THEN "raise"
    ELSE IF gemini_enabled /\ ai THEN "time"
    ELSE IF u.tm = "word" THEN "time"
    ELSE "none"

\* app101 _check_and_set_time: with a calendar the time is stored only if
\* check_availability says the slot is free
CheckAndSetTime(d, t, free) ==
    IF d.date = 0 THEN d
    ELSE IF calendar_manager # "none" /\ ~free THEN d
    ELSE [d EXCEPT !.time = t]

\* app101 extract_booking_info, the block under `if not name`: the name
\* patterns, then a time if a date is known (with the "9:00" test), then the
\* bare answer to the name question
NameBlock(d, u, a, st) ==
    IF d.name # 0 THEN [d |-> d, raised |-> FALSE]
    ELSE LET d1 == IF u.nm = "phrase" THEN [d EXCEPT !.name = u.k] ELSE d
             tryTime == d1.time = 0 /\ d1.date # 0
             t1 == ExtractTime(u, a.ai)
             hasTime == t1 = "time" \/ (t1 = "none" /\ u.tm = "nine")
             d2 == IF tryTime /\ hasTime THEN CheckAndSetTime(d1, u.k, a.free)
                   ELSE d1
             d3 == IF d2.name = 0 /\ st = "gathering_name" /\ u.nm = "bare"
                   THEN [d2 EXCEPT !.name = u.k] ELSE d2
         IN IF tryTime /\ t1 = "raise" THEN [d |-> d1, raised |-> TRUE]
            ELSE [d |-> d3, raised |-> FALSE]

\* app101: if not service: first service whose keywords match
ServiceBlock(d, u) ==
    IF d.service = 0 /\ u.sv THEN [d EXCEPT !.service = u.k] ELSE d

\* app101: if not date: extract_date; a stored preferred_time is then checked
DateBlock(d, u, a) ==
    IF d.date = 0 /\ u.dt
    THEN LET d1 == [d EXCEPT !.date = u.k]
         IN IF d1.preferred_time # 0
            THEN CheckAndSetTime(d1, d1.preferred_time, a.free) ELSE d1
    ELSE d

\* app101: if not time and date: extract_time and _check_and_set_time;
\* elif not time and not date: extract_time and store preferred_time
TimeBlock(d, u, a) ==
    IF d.time # 0 THEN [d |-> d, raised |-> FALSE]
    ELSE LET t2 == ExtractTime(u, a.ai)
         IN IF t2 = "raise" THEN [d |-> d, raised |-> TRUE]
            ELSE IF t2 = "none" THEN [d |-> d, raised |-> FALSE]
            ELSE IF d.date # 0
                 THEN [d |-> CheckAndSetTime(d, u.k, a.free), raised |-> FALSE]
                 ELSE [d |-> [d EXCEPT !.preferred_time = u.k], raised |-> FALSE]

\* app101: if not phone: the number in the text, else from_number
PhoneBlock(d, u) ==
    IF d.phone # 0 THEN d
    ELSE IF u.ph THEN [d EXCEPT !.phone = u.k]
    ELSE IF from_number THEN [d EXCEPT !.phone = CallerNumber]
    ELSE d

\* app101 extract_booking_info: the blocks in order; an exception leaves the
\* writes made before it
AppExtract(d, u, a, st) ==
    LET r1 == NameBlock(d, u, a, st)
        r4 == TimeBlock(DateBlock(ServiceBlock(r1.d, u), u, a), u, a)
    IN IF r1.raised THEN r1
       ELSE IF r4.raised THEN r4
       ELSE [d |-> PhoneBlock(r4.d, u), raised |-> FALSE]

\* infobridge extract_booking_info: name, service, date and time are written
\* if unset; the phone is written whenever the text holds a number
IBExtract(d, u) ==
    LET d1 == IF d.name = 0 /\ u.nm # "none" THEN [d EXCEPT !.name = u.k] ELSE d
        d2 == IF d1.service = 0 /\ u.sv THEN [d1 EXCEPT !.service = u.k] ELSE d1
        d3 == IF d2.date = 0 /\ u.dt THEN [d2 EXCEPT !.date = u.k] ELSE d2
        d4 == IF d3.time = 0 /\ u.tm \in {"clock", "word"}
              THEN [d3 EXCEPT !.time = u.k] ELSE d3
        d5 == IF u.ph THEN [d4 EXCEPT !.phone = u.k] ELSE d4
    IN [d |-> d5, raised |-> FALSE]

extract_booking_info(d, u, a, st) ==
    IF impl = "app101" THEN AppExtract(d, u, a, st) ELSE IBExtract(d, u)

\* app101 process_user_input: "Track what we're asking for"
AskingFor(d) ==
    IF d.name = 0 THEN "gathering_name"
    ELSE IF d.service = 0 THEN "gathering_service"
    ELSE IF d.date = 0 THEN "gathering_date"
    ELSE IF d.time = 0 THEN "gathering_time"
    ELSE "confirming"

\* is_booking_complete / check_booking_complete
is_booking_complete(d) == \A f \in RequiredFields : d[f] # 0

ExtractInit ==
    /\ impl \in Impls
    /\ BreakerIdle
    /\ service = FALSE
    /\ events = {}
    /\ CalendarIdle
    /\ gcal = "none"
    /\ BookingIdle
    /\ SessionIdle
    /\ customer_data = NoData
    /\ session_state = "greeting"
    /\ xpc = "idle"
    /\ utterance = NoUtterance
    /\ answers = NoAnswers
    /\ data_before = NoData
    /\ raised = FALSE
    /\ turn_response = "none"
    /\ turn_booked = FALSE
    /\ calendar_manager \in {"none", "no_service", "ready"}
    /\ gemini_enabled \in BOOLEAN
    /\ from_number \in (IF impl = "app101" THEN BOOLEAN ELSE {FALSE})
    /\ enable_parallel \in (IF impl = "infobridge" THEN BOOLEAN ELSE {FALSE})
    /\ nutt = 0
    /\ AIIdle
    /\ SlotsIdle
    /\ OverlapIdle
    /\ FinishIdle
    /\ ParallelIdle
    /\ DatesIdle
    /\ NearestIdle
    /\ ServicesIdle
    /\ YearsIdle

\* The caller speaks: app101 process_user_input sets session.state and calls
\* extract_booking_info; infobridge handle_user_input_lightning runs it
\* directly or submits it to the executor.  Neither looks whether the session
\* has booked already.
TurnBegin ==
    /\ xpc = "idle"
    /\ nutt < MaxUtterances
    /\ \E u \in Utterances, a \in Answers :
         LET st == IF impl = "app101" THEN AskingFor(customer_data)
                   ELSE session_state
             r == extract_booking_info(customer_data, u, a, st)
         IN /\ utterance' = u
            /\ answers' = a
            /\ session_state' = st
            /\ data_before' = customer_data
            /\ customer_data' = r.d
            /\ raised' = r.raised
    /\ xpc' = "extracted"
    /\ nutt' = nutt + 1
    /\ turn_response' = "none"
    /\ UNCHANGED <<turn_booked, calendar_manager, gemini_enabled, from_number,
                   enable_parallel>>
    /\ UNCHANGED notTurn

\* extract_booking_info is run once more with the same utterance, with the
\* session and the calendar as the first run left them.
ExtractAgain ==
    /\ xpc = "extracted"
    /\ ~raised
    /\ LET r == extract_booking_info(customer_data, utterance, answers,
                                     session_state)
       IN /\ data_before' = customer_data
          /\ customer_data' = r.d
          /\ raised' = r.raised
    /\ xpc' = "repeated"
    /\ UNCHANGED <<session_state, utterance, answers, turn_response, turn_booked,
                   calendar_manager, gemini_enabled, from_number,
                   enable_parallel, nutt>>
    /\ UNCHANGED notTurn

\* The rest of the turn.  app101: an exception of the extraction reaches
\* handle_speech_input, which says "Let me try that again" and redirects to
\* /webhook/voice; a complete booking goes to complete_booking, whose
\* create_appointment never returns when the calendar has a service and
\* whose data_store.add_appointment never returns otherwise; an incomplete
\* one gets the AI's text or the fallback prompt.  infobridge: a late
\* extraction future ends the parallel path with the fallback; a complete
\* booking goes to _finish_booking_lightning; otherwise the AI's text or the
\* fallback prompt.
TurnFinish ==
    /\ xpc = "extracted"
    /\ IF impl = "app101"
       THEN IF raised
            THEN /\ turn_response' = "retry"
                 /\ xpc' = "redirect"
                 /\ UNCHANGED <<customer_data, turn_booked>>
            ELSE IF is_booking_complete(customer_data)
            THEN IF calendar_manager # "none" /\ ~answers.free
                 THEN /\ turn_response' = "alternatives"
                      /\ xpc' = "idle"
                      /\ UNCHANGED <<customer_data, turn_booked>>
                 ELSE /\ xpc' = "blocked"
                      /\ UNCHANGED <<turn_response, customer_data, turn_booked>>
            ELSE /\ turn_response' \in (IF gemini_enabled THEN {"ai", "fallback"}
                                        ELSE {"fallback"})
                 /\ xpc' = "idle"
                 /\ UNCHANGED <<customer_data, turn_booked>>
       ELSE IF answers.late
            THEN /\ turn_response' = "fallback"
                 /\ xpc' = "idle"
                 /\ UNCHANGED <<customer_data, turn_booked>>
            ELSE IF is_booking_complete(customer_data)
            THEN IF calendar_manager # "none" /\ ~answers.free
                 THEN /\ turn_response' = "unavailable"
                      /\ customer_data' = [customer_data EXCEPT !.time = 0]
                      /\ xpc' = "redirect"
                      /\ UNCHANGED turn_booked
                 ELSE /\ turn_response' = "booked"
                      /\ turn_booked' = TRUE
                      /\ xpc' = "idle"
                      /\ UNCHANGED customer_data
            ELSE /\ turn_response' \in (IF gemini_enabled THEN {"ai", "fallback"}
                                        ELSE {"fallback"})
                 /\ xpc' = "idle"
                 /\ UNCHANGED <<customer_data, turn_booked>>
    /\ UNCHANGED <<session_state, utterance, answers, data_before, raised,
                   calendar_manager, gemini_enabled, from_number,
                   enable_parallel, nutt>>
    /\ UNCHANGED notTurn

\* The redirect to /webhook/voice: handle_incoming_call /
\* handle_incoming_call_enhanced stores a new session under the call id.
TurnRedirect ==
    /\ xpc = "redirect"
    /\ customer_data' = NoData
    /\ session_state' = "greeting"
    /\ utterance' = NoUtterance
    /\ answers' = NoAnswers
    /\ data_before' = NoData
    /\ raised' = FALSE
    /\ xpc' = "idle"
    /\ UNCHANGED <<turn_response, turn_booked, calendar_manager, gemini_enabled,
                   from_number, enable_parallel, nutt>>
    /\ UNCHANGED notTurn

\* The call is over and the next call begins with a new session.
NextCall ==
    /\ xpc \in {"idle", "repeated"}
    /\ nutt > 0
    /\ customer_data' = NoData
    /\ session_state' = "greeting"
    /\ utterance' = NoUtterance
    /\ answers' = NoAnswers
    /\ data_before' = NoData
    /\ raised' = FALSE
    /\ turn_response' = "none"
    /\ turn_booked' = FALSE
    /\ xpc' = "idle"
    /\ nutt' = 0
    /\ UNCHANGED <<calendar_manager, gemini_enabled, from_number, enable_parallel>>
    /\ UNCHANGED notTurn

ExtractNext ==
    \/ TurnBegin
    \/ ExtractAgain
    \/ TurnFinish
    \/ TurnRedirect
    \/ NextCall

SpecExtract == ExtractInit /\ [][ExtractNext]_vars

(***************************************************************************)
(* Claims about extraction and the one-turn booking                        *)
(***************************************************************************)

\* C15: a field among name, phone, service, date and time that held a value
\* before extract_booking_info ran holds the same value after it.
C15_FilledFieldsKept ==
    xpc \in {"extracted", "repeated"} =>
        \A f \in BookingFields :
            data_before[f] # 0 => customer_data[f] = data_before[f]

\* C16: with the AI disabled, a second run of extract_booking_info with the
\* same utterance, nothing else having changed, leaves every field as the
\* first run left it.
C16_SecondRunChangesNothing ==
    (xpc = "repeated" /\ ~gemini_enabled) => customer_data = data_before

\* The utterance names the caller, a service, a day and a clock time.
CarriesAll(u) == u.nm = "phrase" /\ u.sv /\ u.dt /\ u.tm = "clock"

\* C17: when a turn whose utterance carries name, service, date and time has
\* been answered, its extraction having run in time, name, service and date
\* are filled, and if the slot was free
\* the time is filled too, the appointment is stored and the answer is the
\* confirmation.
C17_OneTurnFillsAndBooks ==
    (/\ xpc \in {"idle", "redirect"}
     /\ turn_response # "none"
     /\ CarriesAll(utterance)
     /\ ~answers.late)
        => /\ \A f \in {"name", "service", "date"} : customer_data[f] # 0
           /\ answers.free => /\ customer_data.time # 0
                               /\ turn_booked
                               /\ turn_response = "booked"

(***************************************************************************)
(* The AI text call of a speech turn                                       *)
(***************************************************************************)
MaxAITurns == 6

\* infobridge handle_user_input_lightning waits for the AI future with
\* result(timeout=self.response_timeout_ms / 1000) on the parallel path only;
\* the sequential path, and app101 everywhere, call the AI and wait.
HasTimeout == impl = "infobridge" /\ enable_parallel

\* The turns of a call come one after the other.
NoTurnInFlight == \A t \in Callers : gpc[t] = "idle"

AIInit ==
    /\ impl \in Impls
    /\ BreakerIdle
    /\ service = FALSE
    /\ events = {}
    /\ CalendarIdle
    /\ gcal = "none"
    /\ BookingIdle
    /\ SessionIdle
    /\ customer_data = NoData
    /\ session_state = "greeting"
    /\ xpc = "idle"
    /\ utterance = NoUtterance
    /\ answers = NoAnswers
    /\ data_before = NoData
    /\ raised = FALSE
    /\ turn_response = "none"
    /\ turn_booked = FALSE
    /\ calendar_manager = "none"
    /\ gemini_enabled = TRUE
    /\ from_number = FALSE
    /\ enable_parallel \in (IF impl = "infobridge" THEN BOOLEAN ELSE {FALSE})
    /\ nutt = 0
    /\ AIIdle
    /\ SlotsIdle
    /\ OverlapIdle
    /\ FinishIdle
    /\ ParallelIdle
    /\ DatesIdle
    /\ NearestIdle
    /\ ServicesIdle
    /\ YearsIdle

\* A speech turn that does not complete a booking reaches the AI.  app101:
\* extract_time asks the AI first when no pattern matched, then
\* generate_ai_response asks it for the text; both go through
\* GeminiManager.generate_response.  infobridge: the text call only.
AITurnStart(t) ==
    /\ gemini_enabled
    /\ NoTurnInFlight
    /\ cpc[t] = "idle"
    /\ nai < MaxAITurns
    /\ ncalls + 2 <= MaxCalls
    /\ nai' = nai + 1
    /\ \E first \in (IF impl = "app101" THEN {"extract_ai", "text_ai"}
                     ELSE {"text_ai"}) :
         gpc' = [gpc EXCEPT ![t] = first]
    /\ outcome' = [outcome EXCEPT ![t] = "none"]
    /\ ai_hung' = [ai_hung EXCEPT ![t] = FALSE]
    /\ gresp' = [gresp EXCEPT ![t] = "none"]
    /\ UNCHANGED <<ai_streak, impl, cb_state, is_open, failure_count,
                   success_count, last_failure_time, now, cpc, ctmp, nfail, nsucc,
                   ncalls, streak, trial>>
    /\ UNCHANGED notAI

\* app101 GeminiManager.generate_response: self.circuit_breaker.call(_generate)
AppCallGate(t) ==
    /\ gpc[t] # "idle"
    /\ outcome[t] = "none"
    /\ AGate(t)

\* app101 _generate: self.model.generate_content returns or raises
AppCallInvoke(t) ==
    /\ impl = "app101"
    /\ gpc[t] # "idle"
    /\ ~ai_hung[t]
    /\ Invoke(t)

AppCallSuccess(t) ==
    /\ gpc[t] # "idle"
    /\ ASuccess(t)

AppCallFailure(t) ==
    /\ gpc[t] # "idle"
    /\ AFailure(t)

\* The AI collaborator never answers the request it was sent.
AIHang(t) ==
    /\ gpc[t] # "idle"
    /\ ~ai_hung[t]
    /\ impl = "app101" => cpc[t] = "invoke"
    /\ ai_hung' = [ai_hung EXCEPT ![t] = TRUE]
    /\ UNCHANGED <<gpc, gresp, ai_streak, nai>>
    /\ UNCHANGED breakerVars
    /\ UNCHANGED notAI

\* app101 generate_response has returned: the text, or None after
\* `except Exception` (the call raised, or the breaker was open).
\* extract_time goes on and the turn reaches generate_ai_response;
\* process_user_input returns the AI's text or generate_fallback_response.
AppCallResult(t) ==
    /\ impl = "app101"
    /\ gpc[t] # "idle"
    /\ cpc[t] = "idle"
    /\ outcome[t] # "none"
    /\ IF gpc[t] = "extract_ai"
       THEN /\ gpc' = [gpc EXCEPT ![t] = "text_ai"]
            /\ outcome' = [outcome EXCEPT ![t] = "none"]
            /\ UNCHANGED <<gresp, ai_streak>>
       ELSE /\ gpc' = [gpc EXCEPT ![t] = "idle"]
            /\ gresp' = [gresp EXCEPT ![t] =
                            IF outcome[t] = "ok" THEN "ai" ELSE "fallback"]
            /\ ai_streak' = IF outcome[t] = "ok" THEN 0
                            ELSE IF outcome[t] = "error" THEN ai_streak + 1
                            ELSE ai_streak
            /\ UNCHANGED outcome
    /\ UNCHANGED <<ai_hung, nai, impl, cb_state, is_open, failure_count,
                   success_count, last_failure_time, now, cpc, ctmp, nfail, nsucc,
                   ncalls, streak, trial>>
    /\ UNCHANGED notAI

\* infobridge _get_gemini_response_lightning: self.model.generate_content is
\* called directly; its text is returned, and `except Exception` returns
\* _get_instant_fallback.  gemini_circuit_breaker takes no part.
IBTextReturn(t) ==
    /\ impl = "infobridge"
    /\ gpc[t] = "text_ai"
    /\ ~ai_hung[t]
    /\ \E ok \in BOOLEAN :
         /\ gresp' = [gresp EXCEPT ![t] = IF ok THEN "ai" ELSE "fallback"]
         /\ ai_streak' = IF ok THEN 0 ELSE ai_streak + 1
    /\ gpc' = [gpc EXCEPT ![t] = "idle"]
    /\ UNCHANGED <<ai_hung, nai>>
    /\ UNCHANGED breakerVars
    /\ UNCHANGED notAI

\* infobridge, parallel path: futures['ai'].result(timeout=...) raises
\* TimeoutError; the prediction or _get_instant_fallback is the answer.
IBTextTimeout(t) ==
    /\ HasTimeout
    /\ gpc[t] = "text_ai"
    /\ gresp' = [gresp EXCEPT ![t] = "fallback"]
    /\ ai_streak' = ai_streak + 1
    /\ gpc' = [gpc EXCEPT ![t] = "idle"]
    /\ ai_hung' = [ai_hung EXCEPT ![t] = FALSE]
    /\ UNCHANGED nai
    /\ UNCHANGED breakerVars
    /\ UNCHANGED notAI

AINext ==
    \/ Tick
    \/ \E t \in Callers : AITurnStart(t)
    \/ \E t \in Callers : AppCallGate(t)
    \/ \E t \in Callers : AppCallInvoke(t)
    \/ \E t \in Callers : AppCallSuccess(t)
    \/ \E t \in Callers : AppCallFailure(t)
    \/ \E t \in Callers : AIHang(t)
    \/ \E t \in Callers : AppCallResult(t)
    \/ \E t \in Callers : IBTextReturn(t)
    \/ \E t \in Callers : IBTextTimeout(t)

SpecAI == AIInit /\ [][AINext]_vars

(***************************************************************************)
(* Claims about the AI call                                                *)
(***************************************************************************)

\* C18: once failure_threshold turns in a row have had their AI text call
\* raise or time out, the AI breaker is open.
C18_FailingTurnsOpenBreaker == ai_streak >= failure_threshold => BreakerOpen

\* C19: no turn waits without a timeout for an AI call that never returns.
C19_NoTurnWaitsForever ==
    \A t \in Callers : ~(gpc[t] # "idle" /\ ai_hung[t] /\ ~HasTimeout)

(***************************************************************************)
(* app101.py GoogleCalendarManager.find_next_available_slots               *)
(*                                                                         *)
(* Slots are indexes into the fixed list "8:00 AM" .. "5:00 PM"; the       *)
(* calendar does not change while the function runs.                       *)
(***************************************************************************)
\* len(time_slots)
GridLen == 19
MaxCount == 3

\* Events the calendar may hold while alternatives are searched.
SlotCandidates == ExternalCandidates \cup {<<840, 900>>}

\* is_available of check_availability(date_str, time_slot)
IsAvailable(slot) == ~service \/ CheckResult(slot, 0) = "available"

\* The loop `for i in range(len(time_slots))` from step i on: append
\* time_slots[idx + i] if it exists, then time_slots[idx - i] if it exists
\* and i > 0.
RECURSIVE ReorderFrom(_, _, _)
ReorderFrom(p, i, acc) ==
    IF i >= GridLen THEN acc
    ELSE LET a1 == IF p + i <= GridLen THEN Append(acc, p + i) ELSE acc
             a2 == IF p - i >= 1 /\ i > 0 THEN Append(a1, p - i) ELSE a1
         IN ReorderFrom(p, i + 1, a2)

\* The same loop with the two appends in the other order.
RECURSIVE ReorderEarlierFirstFrom(_, _, _)
ReorderEarlierFirstFrom(p, i, acc) ==
    IF i >= GridLen THEN acc
    ELSE LET a1 == IF p - i >= 1 /\ i > 0 THEN Append(acc, p - i) ELSE acc
             a2 == IF p + i <= GridLen THEN Append(a1, p + i) ELSE a1
         IN ReorderEarlierFirstFrom(p, i + 1, a2)

ReorderedEarlierFirst(p) == ReorderEarlierFirstFrom(p, 0, <<>>)

\* The same loop without the test i > 0 of the second append.
RECURSIVE ReorderUnguardedFrom(_, _, _)
ReorderUnguardedFrom(p, i, acc) ==
    IF i >= GridLen THEN acc
    ELSE LET a1 == IF p + i <= GridLen THEN Append(acc, p + i) ELSE acc
             a2 == IF p - i >= 1 THEN Append(a1, p - i) ELSE a1
         IN ReorderUnguardedFrom(p, i + 1, a2)

ReorderedUnguarded(p) == ReorderUnguardedFrom(p, 0, <<>>)

\* reordered, for preferred_time at place p of time_slots
Reordered(p) == ReorderFrom(p, 0, <<>>)

\* time_slots as written in the function
Grid == [i \in 1..GridLen |-> i]

SlotsInit ==
    /\ impl = "app101"
    /\ BreakerIdle
    /\ service \in BOOLEAN
    /\ events \in {{ExternalEvent(iv) : iv \in S} : S \in SUBSET SlotCandidates}
    /\ CalendarIdle
    /\ gcal = "none"
    /\ BookingIdle
    /\ SessionIdle
    /\ TurnIdle
    /\ AIIdle
    /\ fpc = "idle"
    /\ fidx = 0
    /\ fcount = 0
    /\ time_slots = Grid
    /\ fpos = 1
    /\ available_slots = <<>>
    /\ OverlapIdle
    /\ FinishIdle
    /\ ParallelIdle
    /\ DatesIdle
    /\ NearestIdle
    /\ ServicesIdle
    /\ YearsIdle

\* find_next_available_slots(date_str, preferred_time, count) is called;
\* p = 0 stands for a preferred_time that is None or not in time_slots.
\* if not self.service: return []
FindCall ==
    /\ fpc = "idle"
    /\ \E p \in 0..GridLen, c \in 0..MaxCount :
         /\ fidx' = p
         /\ fcount' = c
    /\ time_slots' = Grid
    /\ available_slots' = <<>>
    /\ fpos' = 1
    /\ fpc' = IF service THEN "reorder" ELSE "done"
    /\ UNCHANGED notSlots

\* if preferred_time and preferred_time in time_slots: time_slots = reordered
FindReorder ==
    /\ fpc = "reorder"
    /\ time_slots' = IF fidx # 0 THEN Reordered(fidx) ELSE time_slots
    /\ fpc' = "loop"
    /\ UNCHANGED <<fidx, fcount, fpos, available_slots>>
    /\ UNCHANGED notSlots

\* for time_slot in time_slots: if len(available_slots) >= count: break;
\* is_available, _ = self.check_availability(date_str, time_slot);
\* if is_available: available_slots.append(time_slot)
FindProbe ==
    /\ fpc = "loop"
    /\ IF fpos > Len(time_slots) \/ Len(available_slots) >= fcount
       THEN /\ fpc' = "done"
            /\ UNCHANGED <<fpos, available_slots>>
       ELSE /\ available_slots' = IF IsAvailable(time_slots[fpos])
                                  THEN Append(available_slots, time_slots[fpos])
                                  ELSE available_slots
            /\ fpos' = fpos + 1
            /\ UNCHANGED fpc
    /\ UNCHANGED <<fidx, fcount, time_slots>>
    /\ UNCHANGED notSlots

\* return available_slots
FindReturn ==
    /\ fpc = "done"
    /\ fpc' = "idle"
    /\ UNCHANGED <<fidx, fcount, time_slots, fpos, available_slots>>
    /\ UNCHANGED notSlots

SlotsNext ==
    \/ FindCall
    \/ FindReorder
    \/ FindProbe
    \/ FindReturn

SpecSlots == SlotsInit /\ [][SlotsNext]_vars

(***************************************************************************)
(* Claims about find_next_available_slots                                  *)
(***************************************************************************)

\* Distance of slot s from the preferred slot, in grid steps.
Distance(s) == IF s >= fidx THEN s - fidx ELSE fidx - s

\* s comes before r when alternatives are ranked: nearer first, and at equal
\* distance the later slot first.
RankedBefore(s, r) ==
    \/ Distance(s) < Distance(r)
    \/ (Distance(s) = Distance(r) /\ s > r)

Returned == {available_slots[j] : j \in 1..Len(available_slots)}

\* C20: with a calendar and preferred_time on the grid, the list returned
\* holds available slots only, each ranked before the next (distance from
\* preferred_time never decreases, the later slot first at equal distance);
\* it is cut at count slots, every available slot left out ranks after all
\* those returned, and no slot was checked after the count-th was found.
C20_AlternativesNearestFirst ==
    (fpc = "done" /\ service /\ fidx # 0) =>
        /\ \A s \in Returned : IsAvailable(s)
        /\ \A j \in 1..(Len(available_slots) - 1) :
             RankedBefore(available_slots[j], available_slots[j + 1])
        /\ Len(available_slots) <= fcount
        /\ \A s \in 1..GridLen :
             (IsAvailable(s) /\ s \notin Returned)
                 => /\ Len(available_slots) = fcount
                    /\ \A r \in Returned : RankedBefore(r, s)
        /\ IF Len(available_slots) = fcount
           THEN fcount = 0 \/ time_slots[fpos - 1] = available_slots[fcount]
           ELSE fpos = GridLen + 1

\* A call with count 3 and preferred_time on the grid has returned three
\* slots, the nearest of them unavailable ones apart, while the preferred
\* slot itself was taken and slots on both sides were returned.
C20_Witness ==
    /\ fpc = "done"
    /\ service
    /\ fidx # 0
    /\ fcount = 3
    /\ Len(available_slots) = 3
    /\ ~IsAvailable(fidx)
    /\ \E s, r \in Returned : s > fidx /\ r < fidx

(***************************************************************************)
(* Claims about check_availability of app101.py                            *)
(***************************************************************************)

\* The event lies within buffer_minutes of the appointment asked for at the
\* slot: s - buffer < ee and es < e + buffer.
WithinBuffer(slot, ev) ==
    /\ SlotMinutes(slot) - buffer_minutes < ev.end
    /\ ev.start < SlotMinutes(slot) + appointment_duration + buffer_minutes

\* C25: a check_availability that has answered "available" on a configured
\* calendar asked for a slot with no event of another party within the
\* buffer of its interval.
C25_BufferedConflictRefused ==
    \A t \in Workers :
        (service /\ apc[t] = "idle" /\ aop[t] = "check" /\ aret[t] = "available")
            => \A ev \in events : ev.by = 0 => ~WithinBuffer(areq[t], ev)

\* C27: no check_availability ends with the refusal given when the calendar
\* call raised; a check whose calendar call raised answers "available".
C27_CheckFailsOpen ==
    \A t \in Workers : ~(aop[t] = "check" /\ aret[t] = "unverified")

(***************************************************************************)
(* has_overlap of app101.py check_availability, as a function of two       *)
(* intervals of positive length                                            *)
(***************************************************************************)
MaxPoint == 4

\* Intervals <<start, end>> of positive length over the points 0..MaxPoint.
Intervals == {iv \in (0..MaxPoint) \X (0..MaxPoint) : iv[1] < iv[2]}

OverlapInit ==
    /\ BreakerIdle /\ impl = "app101"
    /\ CalendarIdle /\ service = TRUE /\ events = {}
    /\ BookingIdle /\ gcal = "none"
    /\ SessionIdle
    /\ TurnIdle
    /\ AIIdle
    /\ SlotsIdle
    /\ ov_pc = "idle"
    /\ ov_new \in Intervals
    /\ ov_old \in Intervals
    /\ has_overlap = FALSE
    /\ has_overlap_swapped = FALSE
    /\ FinishIdle
    /\ ParallelIdle
    /\ DatesIdle
    /\ NearestIdle
    /\ ServicesIdle
    /\ YearsIdle

\* has_overlap is computed for the new appointment against the event, and
\* for the two exchanged.
OverlapTest ==
    /\ ov_pc = "idle"
    /\ has_overlap' = HasOverlap(ov_new[1], ov_new[2], ov_old[1], ov_old[2])
    /\ has_overlap_swapped' = HasOverlap(ov_old[1], ov_old[2], ov_new[1], ov_new[2])
    /\ ov_pc' = "tested"
    /\ UNCHANGED <<ov_new, ov_old, notOverlap>>

\* The loop of check_availability goes on to its next event.
OverlapNextEvent ==
    /\ ov_pc = "tested"
    /\ ov_old' \in Intervals
    /\ ov_pc' = "idle"
    /\ UNCHANGED <<ov_new, has_overlap, has_overlap_swapped, notOverlap>>

OverlapNext ==
    \/ OverlapTest
    \/ OverlapNextEvent

SpecOverlap == OverlapInit /\ [][OverlapNext]_vars

\* C26: for intervals of positive length has_overlap(new, existing) holds
\* exactly when new.start < existing.end and existing.start < new.end, the
\* two intervals exchanged give the same result, and intervals that touch
\* (new.end = existing.start) do not overlap.
C26_OverlapIsStandardAndSymmetric ==
    ov_pc = "tested" =>
        /\ has_overlap = (ov_new[1] < ov_old[2] /\ ov_old[1] < ov_new[2])
        /\ has_overlap_swapped = has_overlap
        /\ (ov_new[2] = ov_old[1] => ~has_overlap)

\* The test has run on an appointment that ends where the event starts, and
\* found no overlap either way.
C26_Witness ==
    /\ ov_pc = "tested"
    /\ ov_new[2] = ov_old[1]
    /\ ~has_overlap
    /\ ~has_overlap_swapped

(***************************************************************************)
(* The booking step of a speech turn: app101.py complete_booking and       *)
(* infobridge.py _finish_booking_lightning, with the session store entry   *)
(* of the call and the appointments stored for it                          *)
(***************************************************************************)
MaxFinishTurns == 3

\* The utterances of these turns: the caller gives name and service
\* together, a day, a time of day in words, or none of them.
FinishUtterances ==
    { u \in Utterances : /\ ~u.ph
                         /\ u.nm \in {"none", "phrase"}
                         /\ u.sv = (u.nm = "phrase")
                         /\ u.tm \in {"none", "word"} }

\* What the calendar answers during one turn: free, its answer to every
\* availability check; create_ok, events().insert returns an event;
\* others, another slot of the grid on that date is available.  A calendar
\* manager without a service says free to every check.
FinishAnswers ==
    { a \in [free : BOOLEAN, ai : {FALSE}, late : {FALSE}, create_ok : BOOLEAN,
             others : BOOLEAN] :
        calendar_manager # "ready" => (a.free /\ a.create_ok /\ a.others) }

\* The responses of the booking step that tell the caller the slot is taken.
ConflictResponses == {"alternatives", "other_day", "unavailable"}

FinishInit ==
    /\ impl \in Impls
    /\ BreakerIdle
    /\ service = FALSE
    /\ events = {}
    /\ CalendarIdle
    /\ gcal = "none"
    /\ BookingIdle
    /\ SessionIdle
    /\ customer_data = NoData
    /\ session_state = "greeting"
    /\ xpc = "idle"
    /\ utterance = NoUtterance
    /\ answers = NoAnswers
    /\ data_before = NoData
    /\ raised = FALSE
    /\ turn_response = "none"
    /\ turn_booked = FALSE
    /\ calendar_manager \in {"none", "no_service", "ready"}
    /\ gemini_enabled = FALSE
    /\ from_number = FALSE
    /\ enable_parallel = FALSE
    /\ nutt = 0
    /\ AIIdle
    /\ SlotsIdle
    /\ OverlapIdle
    /\ in_store = TRUE
    /\ stored = <<>>
    /\ evicted_inflight = FALSE
    /\ redelivered = FALSE
    /\ data_store_lock = FALSE
    /\ ParallelIdle
    /\ DatesIdle
    /\ NearestIdle
    /\ ServicesIdle
    /\ YearsIdle

\* The handler finds the session of the call in call_sessions, keeps the
\* object and runs extract_booking_info on the utterance u.
Deliver(u, a) ==
    LET st == IF impl = "app101" THEN AskingFor(customer_data) ELSE session_state
        r == extract_booking_info(customer_data, u, a, st)
    IN /\ utterance' = u
       /\ answers' = a
       /\ session_state' = st
       /\ data_before' = customer_data
       /\ customer_data' = r.d
       /\ raised' = r.raised
       /\ xpc' = "extracted"
       /\ nutt' = nutt + 1
       /\ turn_response' = "none"
       /\ evicted_inflight' = FALSE
       /\ UNCHANGED <<turn_booked, calendar_manager, gemini_enabled, from_number,
                      enable_parallel, in_store, stored, data_store_lock>>
       /\ UNCHANGED notFinish

\* A SpeechTurn with a new utterance arrives for the call.
FinishTurnBegin ==
    /\ xpc = "idle"
    /\ in_store
    /\ nutt < MaxFinishTurns
    /\ \E u \in FinishUtterances, a \in FinishAnswers : Deliver(u, a)
    /\ redelivered' = FALSE

\* The SpeechTurn last handled is delivered once more, after the first
\* delivery was answered.
FinishRedeliver ==
    /\ xpc = "idle"
    /\ in_store
    /\ utterance # NoUtterance
    /\ nutt < MaxFinishTurns
    /\ \E a \in FinishAnswers : Deliver(utterance, a)
    /\ redelivered' = TRUE

\* cleanup_sessions or the status callback of the ended call removes the
\* session from call_sessions; the handler of a turn in flight keeps the
\* object it looked up.
FinishEvict ==
    /\ in_store
    /\ xpc \in {"idle", "extracted"}
    /\ in_store' = FALSE
    /\ evicted_inflight' = (xpc = "extracted")
    /\ UNCHANGED <<turnVars, stored, redelivered, data_store_lock>>
    /\ UNCHANGED notFinish

\* The appointment complete_booking / _finish_booking_lightning stores:
\* by is the SpeechTurn that led to it.
StoredAppointment(status, event_id) ==
    [status |-> status, google_event_id |-> event_id, by |-> utterance.k]

\* The id of the event a successful events().insert returns.
NewEventId == Len(stored) + 1

\* The rest of the turn.  Without all four fields the caller is prompted.
\* app101 complete_booking: a final check that says taken gives the text
\* with the alternatives of find_next_available_slots, or the text about
\* another day, and leaves customer_data as it is; create_appointment never
\* returns when the calendar has a service; without a service it returns
\* (False, None, "Calendar service not available") and the appointment goes
\* to add_appointment as pending_manual; without a calendar as pending.
\* DataStore.add_appointment takes _lock, appends the appointment and calls
\* save_appointments, which waits at its own `with self._lock:` for the
\* threading.Lock the thread holds: the call never returns.
\* infobridge _finish_booking_lightning: a check that says taken gives "no
\* longer available", pops time and redirects to /webhook/voice; otherwise
\* the appointment is appended with the event id create_appointment
\* returned, if any, and the caller is told "You're all set".
FinishBooking ==
    /\ xpc = "extracted"
    /\ IF ~is_booking_complete(customer_data)
       THEN /\ turn_response' = "prompt"
            /\ xpc' = "idle"
            /\ UNCHANGED <<customer_data, turn_booked, stored, data_store_lock>>
       ELSE IF impl = "app101"
       THEN IF calendar_manager # "none" /\ ~answers.free
            THEN /\ turn_response' = IF answers.others THEN "alternatives"
                                     ELSE "other_day"
                 /\ xpc' = "idle"
                 /\ UNCHANGED <<customer_data, turn_booked, stored,
                                data_store_lock>>
            ELSE IF calendar_manager = "ready"
            THEN /\ xpc' = "blocked"
                 /\ UNCHANGED <<turn_response, customer_data, turn_booked, stored,
                                data_store_lock>>
            ELSE /\ data_store_lock' = TRUE
                 /\ stored' = Append(stored, StoredAppointment(
                                  IF calendar_manager = "none" THEN "pending"
                                  ELSE "pending_manual", 0))
                 /\ xpc' = "blocked"
                 /\ UNCHANGED <<turn_response, customer_data, turn_booked>>
       ELSE IF calendar_manager # "none" /\ ~answers.free
            THEN /\ turn_response' = "unavailable"
                 /\ customer_data' = [customer_data EXCEPT !.time = 0]
                 /\ xpc' = "redirect"
                 /\ UNCHANGED <<turn_booked, stored, data_store_lock>>
            ELSE LET event_id == IF calendar_manager = "ready" /\ answers.create_ok
                                 THEN NewEventId ELSE 0
                 IN /\ stored' = Append(stored,
                                        StoredAppointment("unset", event_id))
                    /\ turn_response' = "confirmed"
                    /\ turn_booked' = (turn_booked \/ calendar_manager = "none"
                                       \/ event_id # 0)
                    /\ xpc' = "idle"
                    /\ UNCHANGED <<customer_data, data_store_lock>>
    /\ UNCHANGED <<session_state, utterance, answers, data_before, raised,
                   calendar_manager, gemini_enabled, from_number,
                   enable_parallel, nutt, in_store, evicted_inflight,
                   redelivered>>
    /\ UNCHANGED notFinish

\* The redirect to /webhook/voice: handle_incoming_call_enhanced stores a
\* new session under the call id.
FinishRedirect ==
    /\ xpc = "redirect"
    /\ customer_data' = NoData
    /\ session_state' = "greeting"
    /\ data_before' = NoData
    /\ raised' = FALSE
    /\ xpc' = "idle"
    /\ in_store' = TRUE
    /\ UNCHANGED <<utterance, answers, turn_response, turn_booked,
                   calendar_manager, gemini_enabled, from_number,
                   enable_parallel, nutt, stored, evicted_inflight, redelivered,
                   data_store_lock>>
    /\ UNCHANGED notFinish

FinishNext ==
    \/ FinishTurnBegin
    \/ FinishRedeliver
    \/ FinishEvict
    \/ FinishBooking
    \/ FinishRedirect

SpecFinish == FinishInit /\ [][FinishNext]_vars

(***************************************************************************)
(* Claims about the booking step                                           *)
(***************************************************************************)

\* C21: after a turn whose booking step found the slot taken, the session
\* the next turn meets has no time and still has its name, service and date.
C21_ConflictClearsTimeOnly ==
    (xpc = "idle" /\ turn_response \in ConflictResponses) =>
        /\ customer_data.time = 0
        /\ customer_data.name # 0
        /\ customer_data.service # 0
        /\ customer_data.date # 0

\* C22: a response that tells the caller the slot is taken names an
\* alternative time whenever another slot of that date is available.
C22_LoserHearsAlternative ==
    (turn_response \in ConflictResponses /\ answers.others) =>
        turn_response = "alternatives"

\* C23: once the booking of the session has succeeded, no step stores
\* another appointment for it or changes the session's state.
C23_BookedIsTerminal ==
    [][turn_booked => (stored' = stored /\ session_state' = session_state)]_vars

\* C24: with a calendar configured, the caller is told the appointment is
\* confirmed only if the appointment just stored holds the event id the
\* insert returned.
C24_ConfirmedOnlyWithEventId ==
    (turn_response = "confirmed" /\ calendar_manager # "none") =>
        /\ stored # <<>>
        /\ stored[Len(stored)].google_event_id # 0

\* C29: the handler of a turn whose session was evicted while the turn was
\* in flight stores no appointment and puts no session back in the store.
C29_EvictedTurnDiscarded ==
    [][evicted_inflight => (stored' = stored /\ (in_store' => in_store))]_vars

\* C30: the deliveries of one SpeechTurn leave at most one appointment, and
\* so at most one calendar event, for the call.
C30_DuplicateBooksOnce ==
    \A i, j \in DOMAIN stored : stored[i].by = stored[j].by => i = j

(***************************************************************************)
(* infobridge.py handle_user_input_lightning: the tasks of one turn, on    *)
(* the parallel path (executor) and on the sequential one                  *)
(***************************************************************************)
MaxParallelTurns == 2

\* The fields extract_booking_info writes, in the order it writes them.
FieldOrder == <<"name", "service", "date", "time">>

\* The tasks that read the session's fields: check_booking_complete, the
\* prompt of _get_gemini_response_lightning, predict_next_response and
\* _get_instant_fallback.
Readers == {"check", "ai", "predict", "fallback"}

ParallelInit ==
    /\ impl = "infobridge"
    /\ BreakerIdle
    /\ service = FALSE
    /\ events = {}
    /\ CalendarIdle
    /\ gcal = "none"
    /\ BookingIdle
    /\ SessionIdle
    /\ customer_data = NoData
    /\ session_state = "greeting"
    /\ xpc = "idle"
    /\ utterance = NoUtterance
    /\ answers = NoAnswers
    /\ data_before = NoData
    /\ raised = FALSE
    /\ turn_response = "none"
    /\ turn_booked = FALSE
    /\ calendar_manager = "none"
    /\ gemini_enabled \in BOOLEAN
    /\ from_number = FALSE
    /\ enable_parallel \in BOOLEAN
    /\ nutt = 0
    /\ AIIdle
    /\ SlotsIdle
    /\ OverlapIdle
    /\ FinishIdle
    /\ enable_predictive \in BOOLEAN
    /\ main_pc = "idle"
    /\ extract_pc = "none"
    /\ extract_at = 1
    /\ ai_pc = "none"
    /\ predict_pc = "none"
    /\ fields = {}
    /\ said = {}
    /\ read_early = {}
    /\ npar = 0
    /\ DatesIdle
    /\ NearestIdle
    /\ ServicesIdle
    /\ YearsIdle

\* The turn begins with an utterance that gives the fields of `said`.  On the
\* parallel path the AI call (if use_ai), the extraction and the prediction
\* (if enable_predictive) are submitted to the executor and the request
\* thread waits for the extraction; on the sequential path the request
\* thread runs the extraction itself.
ParallelTurnStart ==
    /\ main_pc = "idle"
    /\ npar < MaxParallelTurns
    /\ said' \in SUBSET {FieldOrder[i] : i \in 1..Len(FieldOrder)}
    /\ ai_pc' = IF enable_parallel /\ gemini_enabled THEN "queued" ELSE "none"
    /\ predict_pc' = IF enable_parallel /\ enable_predictive THEN "queued"
                     ELSE "none"
    /\ extract_pc' = IF enable_parallel THEN "queued" ELSE "running"
    /\ extract_at' = 1
    /\ main_pc' = "wait_extract"
    /\ read_early' = {}
    /\ npar' = npar + 1
    /\ UNCHANGED <<enable_predictive, fields>>
    /\ UNCHANGED notParallel

\* A worker of the executor takes the extraction up.
ExtractStart ==
    /\ extract_pc = "queued"
    /\ extract_pc' = "running"
    /\ UNCHANGED <<enable_predictive, main_pc, extract_at, ai_pc, predict_pc,
                   fields, said, read_early, npar>>
    /\ UNCHANGED notParallel

\* extract_booking_info looks at its next field and writes it if the
\* session has none and the utterance gives one.
ExtractStep ==
    /\ extract_pc = "running"
    /\ fields' = IF FieldOrder[extract_at] \in said
                 THEN fields \cup {FieldOrder[extract_at]} ELSE fields
    /\ IF extract_at = Len(FieldOrder)
       THEN extract_pc' = "done" /\ UNCHANGED extract_at
       ELSE extract_at' = extract_at + 1 /\ UNCHANGED extract_pc
    /\ UNCHANGED <<enable_predictive, main_pc, ai_pc, predict_pc, said,
                   read_early, npar>>
    /\ UNCHANGED notParallel

\* The reader r reads the session's fields now.
ReadsFields(r) ==
    read_early' = IF extract_pc = "done" THEN read_early ELSE read_early \cup {r}

\* _get_gemini_response_lightning, on its worker, builds the cache key and
\* the prompt from session.state and session.customer_data.
AIBuildPrompt ==
    /\ ai_pc = "queued"
    /\ ReadsFields("ai")
    /\ ai_pc' = "done"
    /\ UNCHANGED <<enable_predictive, main_pc, extract_pc, extract_at,
                   predict_pc, fields, said, npar>>
    /\ UNCHANGED notParallel

\* predict_next_response, on its worker, reads the customer_data it was
\* handed.
PredictRead ==
    /\ predict_pc = "queued"
    /\ ReadsFields("predict")
    /\ predict_pc' = "done"
    /\ UNCHANGED <<enable_predictive, main_pc, extract_pc, extract_at, ai_pc,
                   fields, said, npar>>
    /\ UNCHANGED notParallel

\* The request thread has the extraction's result and evaluates
\* check_booking_complete.
MainCheckComplete ==
    /\ main_pc = "wait_extract"
    /\ extract_pc = "done"
    /\ ReadsFields("check")
    /\ main_pc' = "respond"
    /\ UNCHANGED <<enable_predictive, extract_pc, extract_at, ai_pc, predict_pc,
                   fields, said, npar>>
    /\ UNCHANGED notParallel

\* futures['extract'].result(timeout=0.1) raises TimeoutError: the except
\* branch answers with _get_instant_fallback, which reads the fields.
MainExtractTimeout ==
    /\ main_pc = "wait_extract"
    /\ enable_parallel
    /\ extract_pc # "done"
    /\ ReadsFields("fallback")
    /\ main_pc' = "respond"
    /\ UNCHANGED <<enable_predictive, extract_pc, extract_at, ai_pc, predict_pc,
                   fields, said, npar>>
    /\ UNCHANGED notParallel

\* The response is returned; the next turn of the call comes once the
\* workers of this one are through.
ParallelTurnEnd ==
    /\ main_pc = "respond"
    /\ extract_pc = "done"
    /\ ai_pc \in {"none", "done"}
    /\ predict_pc \in {"none", "done"}
    /\ main_pc' = "idle"
    /\ UNCHANGED <<enable_predictive, extract_pc, extract_at, ai_pc, predict_pc,
                   fields, said, read_early, npar>>
    /\ UNCHANGED notParallel

ParallelNext ==
    \/ ParallelTurnStart
    \/ ExtractStart
    \/ ExtractStep
    \/ AIBuildPrompt
    \/ PredictRead
    \/ MainCheckComplete
    \/ MainExtractTimeout
    \/ ParallelTurnEnd

SpecParallel == ParallelInit /\ [][ParallelNext]_vars

\* C28: in no turn does the completeness check, the AI prompt builder, the
\* prediction or the fallback read the session's fields before the turn's
\* extraction has finished.
C28_NoReadBeforeExtractionDone == read_early = {}

(***************************************************************************)
(* Claims about the availability cache of infobridge.py                    *)
(***************************************************************************)

\* C31: the check_availability of a booking step answers from the cache
\* exactly when the slot has an entry younger than cache_ttl, and then with
\* the entry's value; with no entry, or one whose age is cache_ttl or more,
\* the answer is that of _check_availability_internal.
C31_CacheServedOnlyWhileFresh ==
    [][\A c \in Sessions :
         (bpc[c] = "finish_check" /\ bpc'[c] # "finish_check") =>
            LET entry == availability_cache[btime[c]]
                young == /\ entry.timestamp # NoTime
                         /\ now - entry.timestamp < cache_ttl
                passed == bpc'[c] = "finish_create"
            IN IF young
               THEN bsrc'[c] = "cache" /\ passed = entry.available
               ELSE /\ bsrc'[c] # "cache"
                    /\ \E api_ok \in BOOLEAN :
                         passed = InternalAvailable(btime[c], api_ok)]_vars

\* A booking step was answered by the calendar although the slot has a
\* cache entry, whose age is exactly cache_ttl.
C31_Witness ==
    \E c \in Sessions :
        /\ bpc[c] = "finish_create"
        /\ bsrc[c] = "calendar"
        /\ availability_cache[btime[c]].timestamp # NoTime
        /\ now - availability_cache[btime[c]].timestamp = cache_ttl

(***************************************************************************)
(* extract_date of app101.py and of infobridge.py, with _get_next_weekday, *)
(* as functions of today's weekday and of the words in the utterance.  A   *)
(* date is the number of days from today to it.                            *)
(***************************************************************************)
DaysInWeek == 7
NoDay == 7
NoDate == -1

\* today.weekday(), and the place of a day name in the list days
Weekdays == 0..(DaysInWeek - 1)

\* An utterance, by the date words in it: rel, a relative term or "none";
\* day, the weekday it names, or NoDay.
DateUtterances ==
    [rel : {"none", "today", "tomorrow", "day after tomorrow", "next week"},
     day : Weekdays \cup {NoDay}]

\* `word in text`: "day after tomorrow" holds "tomorrow" as well.
InText(word, u) ==
    \/ u.rel = word
    \/ (word = "tomorrow" /\ u.rel = "day after tomorrow")

\* _get_next_weekday with the test days_ahead < 0 in place of <= 0.
NextWeekdaySameDayToday(target_day, current_day) ==
    LET days_ahead == target_day - current_day
    IN IF days_ahead < 0 THEN days_ahead + 7 ELSE days_ahead

\* infobridge _get_next_weekday
NextWeekday(target_day, current_day) ==
    LET days_ahead == target_day - current_day
    IN IF days_ahead <= 0 THEN days_ahead + 7 ELSE days_ahead

\* infobridge extract_date, up to the month names
IBExtractDate(u, current_day) ==
    IF InText("today", u) THEN 0
    ELSE IF InText("tomorrow", u) THEN 1
    ELSE IF InText("day after tomorrow", u) THEN 2
    ELSE IF u.day # NoDay THEN NextWeekday(u.day, current_day)
    ELSE IF InText("next week", u) THEN 7
    ELSE NoDate

\* app101 extract_date
AppExtractDate(u, current_day) ==
    IF InText("today", u) THEN 0
    ELSE IF InText("tomorrow", u) THEN 1
    ELSE IF u.day # NoDay
         THEN LET days_ahead == (u.day - current_day) % 7
              IN IF days_ahead = 0 THEN 7 ELSE days_ahead
    ELSE NoDate

DatesInit ==
    /\ BreakerIdle /\ impl = "infobridge"
    /\ CalendarIdle /\ service = FALSE /\ events = {}
    /\ BookingIdle /\ gcal = "none"
    /\ SessionIdle
    /\ TurnIdle
    /\ AIIdle
    /\ SlotsIdle
    /\ OverlapIdle
    /\ FinishIdle
    /\ ParallelIdle
    /\ d_pc = "idle"
    /\ today_weekday \in Weekdays
    /\ date_text \in DateUtterances
    /\ app_date = NoDate
    /\ ib_date = NoDate
    /\ NearestIdle
    /\ ServicesIdle
    /\ YearsIdle

\* Both extractors read the utterance on the same day.
ExtractDates ==
    /\ d_pc = "idle"
    /\ app_date' = AppExtractDate(date_text, today_weekday)
    /\ ib_date' = IBExtractDate(date_text, today_weekday)
    /\ d_pc' = "extracted"
    /\ UNCHANGED <<today_weekday, date_text, notDates>>

\* The next utterance is heard, the same day.
DatesNextUtterance ==
    /\ d_pc = "extracted"
    /\ date_text' \in DateUtterances
    /\ d_pc' = "idle"
    /\ UNCHANGED <<today_weekday, app_date, ib_date, notDates>>

DatesNext ==
    \/ ExtractDates
    \/ DatesNextUtterance

SpecDates == DatesInit /\ [][DatesNext]_vars

(***************************************************************************)
(* Claims about the date extractors                                        *)
(***************************************************************************)

C33_RelativeTermsOwnOffset ==
    (d_pc = "extracted" /\ date_text.day = NoDay) =>
        /\ (date_text.rel = "day after tomorrow" => ib_date = 2)
        /\ (date_text.rel = "tomorrow" => ib_date = 1)
        /\ (date_text.rel = "today" => ib_date = 0)
        /\ (date_text.rel = "next week" => ib_date = 7)

(***************************************************************************)
(* infobridge.py: the time block of extract_booking_info with              *)
(* find_nearest_available_time.  A time string "h:mm AM" is the record of  *)
(* its hour, minute and period.                                            *)
(***************************************************************************)
MinuteStep == 15
NoClock == [hour |-> 0, minute |-> 0, period |-> "none"]

\* The time strings _parse_time_match can return for a twelve-hour clock
\* time with the minutes a multiple of MinuteStep.
ParsedTimes ==
    [hour : 1..12, minute : {mm \in 0..59 : mm % MinuteStep = 0},
     period : {"AM", "PM"}]

\* The string of available_times at place i.
GridClock(i) ==
    LET mins == available_times[i]
        h == mins \div 60
    IN [hour |-> IF h > 12 THEN h - 12 ELSE h,
        minute |-> mins % 60,
        period |-> IF h >= 12 THEN "PM" ELSE "AM"]

\* find_nearest_available_time: hour, minute and period to minutes, for
\* the requested time and for a slot alike.
ClockMinutes(c) ==
    LET h == IF c.period = "PM" /\ c.hour # 12 THEN c.hour + 12
             ELSE IF c.period = "AM" /\ c.hour = 12 THEN 0
             ELSE c.hour
    IN h * 60 + c.minute

Abs(x) == IF x < 0 THEN -x ELSE x

\* diff with the difference taken as it is, without abs.
SignedDiff(slot, req_minutes) == ClockMinutes(slot) - req_minutes

\* diff = abs(slot_minutes - req_minutes)
SlotDiff(slot, req_minutes) == Abs(ClockMinutes(slot) - req_minutes)

\* The loop over available_times from place i on: best_time is replaced
\* when diff < min_diff; min_diff -1 stands for float('inf').
RECURSIVE NearestFrom(_, _, _, _)
NearestFrom(i, req_minutes, best_time, min_diff) ==
    IF i > Len(available_times) THEN best_time
    ELSE LET diff == SlotDiff(GridClock(i), req_minutes)
         IN IF min_diff = -1 \/ diff < min_diff
            THEN NearestFrom(i + 1, req_minutes, GridClock(i), diff)
            ELSE NearestFrom(i + 1, req_minutes, best_time, min_diff)

find_nearest_available_time(requested_time) ==
    NearestFrom(1, ClockMinutes(requested_time), NoClock, -1)

\* time in self.available_times
InGrid(c) == \E i \in 1..Len(available_times) : GridClock(i) = c

NearestInit ==
    /\ BreakerIdle /\ impl = "infobridge"
    /\ CalendarIdle /\ service = FALSE /\ events = {}
    /\ BookingIdle /\ gcal = "none"
    /\ SessionIdle
    /\ TurnIdle
    /\ AIIdle
    /\ SlotsIdle
    /\ OverlapIdle
    /\ FinishIdle
    /\ ParallelIdle
    /\ DatesIdle
    /\ n_pc = "idle"
    /\ parsed_time \in ParsedTimes
    /\ stored_time = NoClock
    /\ ServicesIdle
    /\ YearsIdle

\* extract_booking_info, "Extract time": the parsed time is stored if it is
\* in available_times, else the nearest slot is.
StoreTime ==
    /\ n_pc = "idle"
    /\ stored_time = NoClock
    /\ stored_time' = IF InGrid(parsed_time) THEN parsed_time
                      ELSE find_nearest_available_time(parsed_time)
    /\ n_pc' = "stored"
    /\ UNCHANGED <<parsed_time, notNearest>>

\* The next call: a new session, and another time is heard.
NearestNextCall ==
    /\ n_pc = "stored"
    /\ parsed_time' \in ParsedTimes
    /\ stored_time' = NoClock
    /\ n_pc' = "idle"
    /\ UNCHANGED notNearest

NearestNext ==
    \/ StoreTime
    \/ NearestNextCall

SpecNearest == NearestInit /\ [][NearestNext]_vars

(***************************************************************************)
(* Claims about the snapping of times                                      *)
(***************************************************************************)

\* The minute of the day of a twelve-hour clock time.
MinuteOfDay(c) == (c.hour % 12) * 60 + c.minute + (IF c.period = "PM" THEN 720 ELSE 0)

\* C34: the time stored for a parsed time is a slot of the grid, and no slot
\* of the grid is nearer to the parsed time in minutes than it.
C34_StoredSlotIsNearest ==
    n_pc = "stored" =>
        /\ InGrid(stored_time)
        /\ \A i \in 1..Len(available_times) :
             Abs(available_times[i] - MinuteOfDay(parsed_time))
                >= Abs(MinuteOfDay(stored_time) - MinuteOfDay(parsed_time))

\* A time off the grid, later than the last slot, was stored as a slot.
C34_Witness ==
    /\ n_pc = "stored"
    /\ ~InGrid(parsed_time)
    /\ MinuteOfDay(parsed_time) > available_times[Len(available_times)]
    /\ InGrid(stored_time)

(***************************************************************************)
(* The service block of extract_booking_info, app101.py and infobridge.py: *)
(* the catalog is the list business_config.services, a service is its      *)
(* place in that list, and an utterance is the set of services whose name  *)
(* or keywords occur in it                                                 *)
(***************************************************************************)
NCatalog == 3
MaxPriority == 2
NoService == 0

\* The catalogs: the priority value of each service, in list order.
Catalogs == [1..NCatalog -> 0..MaxPriority]

\* for service in self.business_config.services: if it matches: store it,
\* break -- from place i of the list on.
RECURSIVE FirstMatchFrom(_, _)
FirstMatchFrom(i, matching) ==
    IF i > NCatalog THEN NoService
    ELSE IF i \in matching THEN i
    ELSE FirstMatchFrom(i + 1, matching)

ServicesInit ==
    /\ impl \in Impls
    /\ BreakerIdle
    /\ CalendarIdle /\ service = FALSE /\ events = {}
    /\ BookingIdle /\ gcal = "none"
    /\ SessionIdle
    /\ TurnIdle
    /\ AIIdle
    /\ SlotsIdle
    /\ OverlapIdle
    /\ FinishIdle
    /\ ParallelIdle
    /\ DatesIdle
    /\ NearestIdle
    /\ sv_pc = "idle"
    /\ services \in Catalogs
    /\ matching_services \in SUBSET (1..NCatalog)
    /\ stored_service = NoService
    /\ YearsIdle

\* extract_booking_info, the service block, for a session with no service.
StoreService ==
    /\ sv_pc = "idle"
    /\ stored_service = NoService
    /\ stored_service' = FirstMatchFrom(1, matching_services)
    /\ sv_pc' = "stored"
    /\ UNCHANGED <<services, matching_services, notServices>>

\* The next call: a new session, and another utterance.
ServicesNextCall ==
    /\ sv_pc = "stored"
    /\ matching_services' \in SUBSET (1..NCatalog)
    /\ stored_service' = NoService
    /\ sv_pc' = "idle"
    /\ UNCHANGED <<services, notServices>>

ServicesNext ==
    \/ StoreService
    \/ ServicesNextCall

SpecServices == ServicesInit /\ [][ServicesNext]_vars

\* C35: the service stored for an utterance that matches several services
\* is a matching one, and no matching service has a priority value before
\* its own.
C35_StoredServiceFirstInPriority ==
    (sv_pc = "stored" /\ matching_services # {}) =>
        /\ stored_service \in matching_services
        /\ \A other \in matching_services :
             services[stored_service] <= services[other]

(***************************************************************************)
(* Claims about the fallback name rule                                     *)
(***************************************************************************)

\* C36: an utterance with no self-identification phrase, heard by a session
\* with no name whose state is not gathering_name, leaves the name unset.
C36_BareNameOnlyWhenAwaited ==
    (/\ xpc = "extracted"
     /\ data_before.name = 0
     /\ utterance.nm # "phrase"
     /\ session_state # "gathering_name") => customer_data.name = 0


\* A handler stands at `with self.session_lock:` (handle_incoming_call,
\* handle_speech_input, handle_call_status for an ended call) and the lock is
\* taken.
SessionWaiting(h) ==
    /\ impl = "app101"
    /\ \/ hpc[h] \in {"incoming", "speech"}
       \/ hpc[h] = "status" /\ hstatus[h] \in CallEndedStatuses
    /\ session_lock # 0

\* C37: in app101.py no webhook handler waits for ever for session_lock: the
\* handler that holds the lock is never itself waiting to acquire it, so every
\* waiting handler is served once the holder leaves its block.
C37_NoHandlerWaitsForever ==
    \A h \in Handlers :
      SessionWaiting(h) =>
        ~(session_lock \in Handlers /\ SessionWaiting(session_lock))


\* C38: in app101.py DataStore.add_appointment always terminates: no booking
\* turn is left inside add_appointment with DataStore._lock held and no step
\* to take, so the turn returns its confirmation and later add_appointment
\* and find_appointments calls find the lock free.
C38_AddAppointmentReturns ==
    data_store_lock => xpc # "blocked"

(***************************************************************************)
(* infobridge.py: the year _check_availability_internal and                *)
(* create_appointment give to a date string that carries none              *)
(***************************************************************************)
MaxDay == 3
MaxMinute == 2

\* No year has been chosen.
NoYear == -1

\* A day of the year with a time of that day: what "%A, %B %d %I:%M %p"
\* parses from date and time, and what datetime.now() returns.
Instants == [day : 1..MaxDay, minute : 0..MaxMinute]

\* _check_availability_internal: the year is datetime.now().year, and the
\* next one if appointment_date.date() < today.  Years count from the year
\* of the clock.
CheckYear(a, c) == IF a.day < c.day THEN 1 ELSE 0

\* create_appointment: the year is datetime.now().year, and the next one if
\* appointment_datetime < datetime.now(), date and time compared.
CreateYear(a, c) ==
    IF a.day < c.day \/ (a.day = c.day /\ a.minute < c.minute) THEN 1 ELSE 0

YearsInit ==
    /\ impl = "infobridge"
    /\ BreakerIdle
    /\ service = TRUE
    /\ events = {}
    /\ CalendarIdle
    /\ gcal = "none"
    /\ BookingIdle
    /\ SessionIdle
    /\ TurnIdle
    /\ AIIdle
    /\ SlotsIdle
    /\ OverlapIdle
    /\ FinishIdle
    /\ ParallelIdle
    /\ DatesIdle
    /\ NearestIdle
    /\ ServicesIdle
    /\ y_pc = "idle"
    /\ appt \in Instants
    /\ clock \in Instants
    /\ clock_at_check = clock
    /\ check_year = NoYear
    /\ create_year = NoYear

\* check_availability of the booking step, the cache missing:
\* _check_availability_internal resolves the strings.
ResolveCheck ==
    /\ y_pc = "idle"
    /\ check_year' = CheckYear(appt, clock)
    /\ clock_at_check' = clock
    /\ y_pc' = "checked"
    /\ UNCHANGED <<appt, clock, create_year>>
    /\ UNCHANGED notYears

\* Time passes between the check and the insert.
YearsClockTick ==
    /\ y_pc = "checked"
    /\ \/ /\ clock.minute < MaxMinute
          /\ clock' = [clock EXCEPT !.minute = @ + 1]
       \/ /\ clock.minute = MaxMinute
          /\ clock.day < MaxDay
          /\ clock' = [day |-> clock.day + 1, minute |-> 0]
    /\ UNCHANGED <<y_pc, appt, clock_at_check, check_year, create_year>>
    /\ UNCHANGED notYears

\* create_appointment resolves the same strings for the insert.
ResolveCreate ==
    /\ y_pc = "checked"
    /\ create_year' = CreateYear(appt, clock)
    /\ y_pc' = "created"
    /\ UNCHANGED <<appt, clock, clock_at_check, check_year>>
    /\ UNCHANGED notYears

\* The next booking, at another moment.
YearsNextCall ==
    /\ y_pc = "created"
    /\ appt' \in Instants
    /\ clock' \in Instants
    /\ clock_at_check' = clock'
    /\ check_year' = NoYear
    /\ create_year' = NoYear
    /\ y_pc' = "idle"
    /\ UNCHANGED notYears

YearsNext ==
    \/ ResolveCheck
    \/ YearsClockTick
    \/ ResolveCreate
    \/ YearsNextCall

SpecYears == YearsInit /\ [][YearsNext]_vars

\* C39: in infobridge.py the availability check and the insert resolve the
\* same date and time strings, at the same clock value, to the same year, so
\* the interval checked is the interval booked.
C39_CheckedYearIsBookedYear ==
    (y_pc = "created" /\ clock_at_check = clock) => check_year = create_year


\* C40: the list find_next_available_slots returns holds at most count
\* slots, all of them slots of the grid, no slot twice, each one reported
\* available by check_availability in that call; a preferred_time that is
\* itself unavailable is not in the list.
C40_ResultBoundedDistinctAvailable ==
    fpc = "done" =>
        /\ Len(available_slots) <= fcount
        /\ \A j \in 1..Len(available_slots) : available_slots[j] \in 1..GridLen
        /\ \A i, j \in 1..Len(available_slots) :
             available_slots[i] = available_slots[j] => i = j
        /\ \A s \in Returned : IsAvailable(s)
        /\ (fidx # 0 /\ ~IsAvailable(fidx)) => fidx \notin Returned

\* A call with count 2 whose preferred_time is on the grid and taken has
\* returned two slots.
C40_Witness ==
    /\ fpc = "done"
    /\ service
    /\ fidx # 0
    /\ ~IsAvailable(fidx)
    /\ fcount = 2
    /\ Len(available_slots) = 2

====
